---- MODULE Spec2Model ----
(***************************************************************************)
(* Model of the roster normalisation core of iu-football-gameday:          *)
(* src/src/lib/roster/data.ts (coercions, comparator, payload parser) and  *)
(* the formatters module (filterAndSortPlayers).                           *)
(*                                                                         *)
(* Strings are sequences of characters (one-character strings).  A value  *)
(* of type `string | null` is a sequence, null being the one-element       *)
(* sequence                                                                *)
(* Null whose element is no character.  A value of type `number | null`    *)
(* (or a number that may be NaN) is a record [ok, val].                    *)
(***************************************************************************)
EXTENDS Integers, Sequences, FiniteSets, TLC

VARIABLES
    cmpIn,      \* comparePlayers: the arguments (a, b, c, config)
    cmpOut,     \* comparePlayers: the values returned for the pairs of cmpIn
    fsIn,       \* filterAndSortPlayers: the arguments (players, query, sortConfig)
    fsOut,      \* filterAndSortPlayers: the caller's array afterwards, and the returned list
    neIn,       \* parseTeamNextEvent: the raw next-event record
    neOut,      \* parseTeamNextEvent: the TeamNextEvent returned (or null)
    prIn,       \* parseRosterPayload: the decoded payload
    prOut,      \* parseRosterPayload: the outcome (thrown, or the triple)
    callIn,     \* a call of one of the other exported functions: its argument
    callOut     \* that call: the value returned

vars == <<cmpIn, cmpOut, fsIn, fsOut, neIn, neOut, prIn, prOut, callIn, callOut>>

\* A variable of a function that has not been called (yet).
Idle == [pc |-> "idle"]

-----------------------------------------------------------------------------
(* Characters and strings *)

Null == <<"<null>">>
\* U+2014 EM DASH, the placeholder character; written as a token because the
\* module is ASCII.
EmDash == "&mdash;"
Dash == <<EmDash>>

Min(a, b) == IF a < b THEN a ELSE b
Sign(n) == IF n < 0 THEN -1 ELSE IF n > 0 THEN 1 ELSE 0

IsSpace(c) == c = " "
IsDigit(c) == c \in {"0", "1", "2", "3", "4", "5", "6", "7", "8", "9"}

DigitVal(c) ==
    CASE c = "0" -> 0 [] c = "1" -> 1 [] c = "2" -> 2 [] c = "3" -> 3
      [] c = "4" -> 4 [] c = "5" -> 5 [] c = "6" -> 6 [] c = "7" -> 7
      [] c = "8" -> 8 [] c = "9" -> 9

DigitChar(d) ==
    CASE d = 0 -> "0" [] d = 1 -> "1" [] d = 2 -> "2" [] d = 3 -> "3"
      [] d = 4 -> "4" [] d = 5 -> "5" [] d = 6 -> "6" [] d = 7 -> "7"
      [] d = 8 -> "8" [] d = 9 -> "9"

\* String.prototype.toLowerCase, one character at a time.
LowerChar(c) ==
    CASE c = "A" -> "a" [] c = "B" -> "b" [] c = "Q" -> "q" [] c = "X" -> "x"
      [] c = "T" -> "t" [] c = "F" -> "f"
      [] OTHER -> c

ToLowerCase(s) == [i \in 1..Len(s) |-> LowerChar(s[i])]

\* Primary collation weight of a character (the order localeCompare uses:
\* white space, punctuation, digits, letters; a letter and its capital share one).
PrimaryWeight(c) ==
    CASE c = " " -> 1
      [] c = "-" -> 2
      [] c = EmDash -> 3
      [] c = "," -> 4
      [] c = "'" -> 5
      [] IsDigit(c) -> 10 + DigitVal(c)
      [] c \in {"a", "A"} -> 30
      [] c \in {"b", "B"} -> 31
      [] c \in {"q", "Q"} -> 32
      [] c \in {"x", "X"} -> 33

\* Tertiary (case) weight: a small letter sorts before its capital.
CaseWeight(c) == IF c \in {"A", "B", "Q", "X"} THEN 1 ELSE 0

\* The least element of a non-empty set of integers.
MinOf(S) == CHOOSE k \in S : \A j \in S : k <= j
MaxOf(S) == CHOOSE k \in S : \A j \in S : k >= j

\* Lexicographic comparison of two sequences of integers, D the positions
\* where they differ: -1, 0 or 1.
CmpAt(u, v, D) ==
    IF D = {} THEN Sign(Len(u) - Len(v))
    ELSE IF u[MinOf(D)] < v[MinOf(D)] THEN -1 ELSE 1

CmpSeq(u, v) == CmpAt(u, v, {i \in 1..Min(Len(u), Len(v)) : u[i] # v[i]})

\* a.localeCompare(b, undefined, { sensitivity: 'base' })
LocaleCompareBase(s, t) ==
    CmpSeq([i \in 1..Len(s) |-> PrimaryWeight(s[i])],
           [i \in 1..Len(t) |-> PrimaryWeight(t[i])])

\* a.localeCompare(b): primary weights first, case differences break the tie.
LocaleCompare(s, t) ==
    IF LocaleCompareBase(s, t) # 0 THEN LocaleCompareBase(s, t)
    ELSE CmpSeq([i \in 1..Len(s) |-> CaseWeight(s[i])],
                [i \in 1..Len(t) |-> CaseWeight(t[i])])

\* The first position at or after i that holds no white space (Len(s) + 1 if none).
SkipSpaces(s, i) == MinOf({j \in i..(Len(s) + 1) : j = Len(s) + 1 \/ ~IsSpace(s[j])})

\* The last position that holds no white space (0 if none).
LastNonSpace(s) == MaxOf({j \in 0..Len(s) : j = 0 \/ ~IsSpace(s[j])})

\* String.prototype.trim
Trim(s) == SubSeq(s, SkipSpaces(s, 1), LastNonSpace(s))

\* String.prototype.includes
Includes(s, q) ==
    \E i \in 1..(Len(s) - Len(q) + 1) : SubSeq(s, i, i + Len(q) - 1) = q

-----------------------------------------------------------------------------
(* Numbers *)

Num(n) == [ok |-> TRUE, val |-> n]
\* null where the code returns `number | null`, NaN where it returns a number.
NoNum == [ok |-> FALSE, val |-> 0]

RECURSIVE DigitsValue(_)
DigitsValue(ds) ==
    IF ds = <<>> THEN 0
    ELSE 10 * DigitsValue(SubSeq(ds, 1, Len(ds) - 1)) + DigitVal(ds[Len(ds)])

\* The longest run of digits of s that starts at position i (empty if none).
DigitRunAt(s, i) ==
    SubSeq(s, i, MinOf({j \in i..(Len(s) + 1) : j = Len(s) + 1 \/ ~IsDigit(s[j])}) - 1)

SignedValue(sign, run) == IF run = <<>> THEN NoNum ELSE Num(sign * DigitsValue(run))

\* parseInt from lo, the first position without white space.
ParseIntAt(s, lo) ==
    IF lo > Len(s) THEN NoNum
    ELSE SignedValue(IF s[lo] = "-" THEN -1 ELSE 1,
                     DigitRunAt(s, IF s[lo] \in {"-", "+"} THEN lo + 1 ELSE lo))

\* Number.parseInt(s, 10): leading white space, an optional sign, then digits;
\* NaN without digits.
ParseInt(s) == ParseIntAt(s, SkipSpaces(s, 1))

\* The first run of digits of s, D its positions that hold a digit.
FirstDigitRun(s, D) == IF D = {} THEN <<>> ELSE DigitRunAt(s, MinOf(D))

\* weight.match(/\d+/), then Number.parseInt(match[0], 10); null without a match.
parseWeight(weight) ==
    ParseInt(FirstDigitRun(weight, {i \in 1..Len(weight) : IsDigit(weight[i])}))

\* Mutant: the inches are not read.
FeetInches_FeetOnly(feet, inches) ==
    IF feet = <<>> THEN NoNum ELSE Num(DigitsValue(feet) * 12)

FeetInches(feet, inches) ==
    IF feet = <<>> THEN NoNum
    ELSE Num(DigitsValue(feet) * 12 + (IF inches = <<>> THEN 0 ELSE DigitsValue(inches)))

\* The position behind an optional apostrophe at p.
SkipApostrophe(s, p) == IF p <= Len(s) /\ s[p] = "'" THEN p + 1 ELSE p

\* The second group of /^(\d+)\s*'?\s*(\d+)?/, the first being feet.
InchesRun(s, feet) ==
    DigitRunAt(s, SkipSpaces(s, SkipApostrophe(s, SkipSpaces(s, Len(feet) + 1))))

HeightOfTrimmed(trimmed) ==
    FeetInches(DigitRunAt(trimmed, 1), InchesRun(trimmed, DigitRunAt(trimmed, 1)))

\* trimmed.match(/^(\d+)\s*'?\s*(\d+)?/), then feet * 12 + inches: null without
\* a leading digit, inches 0 without the second group.
parseHeight(height) == HeightOfTrimmed(Trim(height))

-----------------------------------------------------------------------------
(* Player records (types/roster: Player), with the fields the parser, the   *)
(* comparator and the search filter read.                                   *)

MkPlayer(id, displayName, jersey, position, experience, height, weight, hometown) ==
    [id |-> id, uid |-> Null, guid |-> Null, displayName |-> displayName,
     fullName |-> Null, firstName |-> Null, lastName |-> Null, shortName |-> Null,
     jersey |-> jersey,
     position |-> position, positionAbbreviation |-> Null, positionName |-> position,
     positionId |-> Null,
     experience |-> experience, experienceAbbreviation |-> Null, experienceYears |-> NoNum,
     height |-> height, weight |-> weight,
     hometown |-> hometown,
     birthCity |-> Null, birthState |-> Null, birthCountry |-> Null,
     birthCountryAbbreviation |-> Null, flagUrl |-> Null, flagAlt |-> Null,
     status |-> Dash, statusType |-> Null, statusAbbreviation |-> Null, isActive |-> FALSE,
     slug |-> Null, type |-> Null, injuries |-> <<>>]

SortKeys == {"jersey", "displayName", "position", "experience", "height", "weight", "hometown"}
SortDirections == {"asc", "desc"}
SortConfigs == [key : SortKeys, direction : SortDirections]
NumericKeys == {"jersey", "weight", "height"}

\* a[key] for a sort key
PlayerField(p, key) ==
    CASE key = "jersey" -> p.jersey
      [] key = "displayName" -> p.displayName
      [] key = "position" -> p.position
      [] key = "experience" -> p.experience
      [] key = "height" -> p.height
      [] key = "weight" -> p.weight
      [] key = "hometown" -> p.hometown

\* The number comparePlayers parses out of a player for a numeric key:
\* Number.parseInt(jersey, 10), parseWeight(weight), parseHeight(height).
\* (Every number the bounded strings parse to is finite, so Number.isFinite
\* is "not NaN".)
KeyNumber(p, key) ==
    CASE key = "jersey" -> ParseInt(p.jersey)
      [] key = "weight" -> parseWeight(p.weight)
      [] key = "height" -> parseHeight(p.height)

\* modifier
Modifier(config) == IF config.direction = "asc" THEN 1 ELSE -1

\* a.displayName.localeCompare(b.displayName, undefined, { sensitivity: 'base' }) * modifier
CompareNames(a, b, config) ==
    LocaleCompareBase(a.displayName, b.displayName) * Modifier(config)

\* Mutant: no displayName tie-break after the key's own field.
TieBreak_None(baseComparison, a, b, config) == baseComparison * Modifier(config)

\* The end of comparePlayers: baseComparison, and the displayName tie-break.
TieBreak(baseComparison, a, b, config) ==
    IF baseComparison # 0 THEN baseComparison * Modifier(config)
    ELSE CompareNames(a, b, config)

CompareStrings(a, b, config) ==
    TieBreak(LocaleCompareBase(PlayerField(a, config.key), PlayerField(b, config.key)),
             a, b, config)

\* One of the three numeric blocks, na and nb the numbers parsed; a block
\* that does not return falls through to the string comparison on a[key].
CompareParsed(na, nb, a, b, config) ==
    IF ~na.ok /\ ~nb.ok THEN CompareNames(a, b, config)
    ELSE IF ~na.ok THEN (IF config.direction = "asc" THEN 1 ELSE -1)
    ELSE IF ~nb.ok THEN (IF config.direction = "asc" THEN -1 ELSE 1)
    ELSE IF na.val # nb.val THEN (na.val - nb.val) * Modifier(config)
    ELSE CompareStrings(a, b, config)

\* Mutant: a player without a number is put last in both directions.
CompareParsed_MissingAlwaysLast(na, nb, a, b, config) ==
    IF ~na.ok /\ ~nb.ok THEN CompareNames(a, b, config)
    ELSE IF ~na.ok THEN 1
    ELSE IF ~nb.ok THEN -1
    ELSE IF na.val # nb.val THEN (na.val - nb.val) * Modifier(config)
    ELSE CompareStrings(a, b, config)

comparePlayers_MissingAlwaysLast(a, b, config) ==
    IF config.key \in NumericKeys
    THEN CompareParsed_MissingAlwaysLast(KeyNumber(a, config.key), KeyNumber(b, config.key),
                                         a, b, config)
    ELSE CompareStrings(a, b, config)

\* Mutant: a missing number on the left is "greater", and so is one on the right.
CompareParsed_MissingOneSided(na, nb, a, b, config) ==
    IF ~na.ok /\ ~nb.ok THEN CompareNames(a, b, config)
    ELSE IF ~na.ok \/ ~nb.ok THEN (IF config.direction = "asc" THEN 1 ELSE -1)
    ELSE IF na.val # nb.val THEN (na.val - nb.val) * Modifier(config)
    ELSE CompareStrings(a, b, config)

comparePlayers_MissingOneSided(a, b, config) ==
    IF config.key \in NumericKeys
    THEN CompareParsed_MissingOneSided(KeyNumber(a, config.key), KeyNumber(b, config.key),
                                       a, b, config)
    ELSE CompareStrings(a, b, config)

\* comparePlayers(a, b, config).  The blocks for jersey, weight and height
\* are the same code around three parsers (KeyNumber).
comparePlayers(a, b, config) ==
    IF config.key \in NumericKeys
    THEN CompareParsed(KeyNumber(a, config.key), KeyNumber(b, config.key), a, b, config)
    ELSE CompareStrings(a, b, config)

-----------------------------------------------------------------------------
(* comparePlayers on bounded inputs *)

\* jersey, position, experience, height, weight, hometown of the players compared:
\* numbers that differ, equal numbers written differently (3 and 3a, 21 b and
\* 21, 6' 2 and 6'2), and two different strings without a number.
Profiles ==
    { <<<<"3">>, <<"Q", "B">>, <<"a">>, <<"6", "'", " ", "2">>, <<"2", "1", " ", "b">>,
        <<"a", ",", " ", "b">>>>,
      <<<<"3", "a">>, <<"q", "b">>, <<"a">>, <<"6", "'", "2">>, <<"2", "1">>,
        <<"b", ",", " ", "a">>>>,
      <<<<"1", "2">>, <<"B">>, <<"b">>, <<"5", "'", " ", "1", "1">>, <<"b", "3">>,
        Dash>>,
      <<Dash, Dash, Dash, Dash, Dash, Dash>>,
      <<<<"x">>, <<"x">>, <<"X">>, <<"x">>, <<"x">>, <<"x">>>> }

ComparedNames == {<<"a">>, <<"A">>, <<"b">>}

ComparedPlayers ==
    {MkPlayer(<<"1">>, n, f[1], f[2], f[3], f[4], f[5], f[6]) :
        n \in ComparedNames, f \in Profiles}

InitCompare ==
    /\ \E a \in ComparedPlayers, b \in ComparedPlayers, c \in ComparedPlayers,
          config \in SortConfigs :
            cmpIn = [a |-> a, b |-> b, c |-> c, config |-> config]
    /\ cmpOut = Idle
    /\ fsIn = Idle /\ fsOut = Idle
    /\ neIn = Idle /\ neOut = Idle
    /\ prIn = Idle /\ prOut = Idle
    /\ callIn = Idle /\ callOut = Idle

\* The comparator is called on the pairs of (a, b, c), as a sort does.
Compare ==
    /\ cmpOut = Idle
    /\ cmpOut' = [pc |-> "done",
                  aa |-> comparePlayers(cmpIn.a, cmpIn.a, cmpIn.config),
                  ab |-> comparePlayers(cmpIn.a, cmpIn.b, cmpIn.config),
                  ba |-> comparePlayers(cmpIn.b, cmpIn.a, cmpIn.config),
                  bc |-> comparePlayers(cmpIn.b, cmpIn.c, cmpIn.config),
                  ac |-> comparePlayers(cmpIn.a, cmpIn.c, cmpIn.config)]
    /\ UNCHANGED <<cmpIn, fsIn, fsOut, neIn, neOut, prIn, prOut, callIn, callOut>>

NextCompare == Compare

SpecCompare == InitCompare /\ [][NextCompare]_vars

CompareDone == cmpOut # Idle

\* C4: for every key and direction comparePlayers is a consistent order:
\* compare(a, a) = 0, compare(a, b) and compare(b, a) have opposite signs, and
\* compare(a, b) <= 0 with compare(b, c) <= 0 gives compare(a, c) <= 0.
C4_ConsistentOrder ==
    CompareDone =>
        /\ cmpOut.aa = 0
        /\ Sign(cmpOut.ab) = -Sign(cmpOut.ba)
        /\ (cmpOut.ab <= 0 /\ cmpOut.bc <= 0) => cmpOut.ac <= 0

\* C4's case: a numeric key, b and c with the same number written differently,
\* a without a number, and a chain a >= b >= c that is not all ties.
C4_Witness ==
    /\ CompareDone
    /\ cmpIn.config.key \in NumericKeys
    /\ ~KeyNumber(cmpIn.c, cmpIn.config.key).ok
    /\ KeyNumber(cmpIn.a, cmpIn.config.key).ok
    /\ KeyNumber(cmpIn.b, cmpIn.config.key) = KeyNumber(cmpIn.a, cmpIn.config.key)
    /\ PlayerField(cmpIn.a, cmpIn.config.key) # PlayerField(cmpIn.b, cmpIn.config.key)
    /\ cmpOut.ab < 0 /\ cmpOut.bc < 0 /\ cmpOut.ac < 0

ExactlyOneUnparseable ==
    /\ cmpIn.config.key \in NumericKeys
    /\ KeyNumber(cmpIn.a, cmpIn.config.key).ok # KeyNumber(cmpIn.b, cmpIn.config.key).ok

\* C5: for jersey, weight and height, when exactly one of the two values has no
\* number, the player without a number sorts after the other in ascending
\* direction and before it in descending direction.
C5_UnparseableLastAscFirstDesc ==
    (CompareDone /\ ExactlyOneUnparseable) =>
        LET aMissing == ~KeyNumber(cmpIn.a, cmpIn.config.key).ok
            asc == cmpIn.config.direction = "asc"
        IN  IF aMissing = asc THEN cmpOut.ab > 0 ELSE cmpOut.ab < 0

C5_Witness ==
    /\ CompareDone /\ ExactlyOneUnparseable
    /\ cmpIn.config.direction = "desc"
    /\ cmpIn.config.key = "height"
    /\ ~KeyNumber(cmpIn.a, "height").ok
    /\ cmpOut.ab < 0

\* Case-insensitive comparison of two strings, letter by letter.
CaseInsensitiveCompare(s, t) ==
    CmpSeq([i \in 1..Len(s) |-> PrimaryWeight(LowerChar(s[i]))],
           [i \in 1..Len(t) |-> PrimaryWeight(LowerChar(t[i]))])

DirectionSign == IF cmpIn.config.direction = "asc" THEN 1 ELSE -1

\* C7: for displayName, position, experience and hometown, and for a numeric
\* key when both values parse to the same number, the result is the
\* case-insensitive comparison of the key's field, a tie broken by the
\* case-insensitive comparison of displayName, times the direction; when
\* neither value of a numeric key parses it is the direction-adjusted
\* case-insensitive comparison of displayName alone.
C7_StringOrderAndTieBreak ==
    CompareDone =>
        LET key == cmpIn.config.key
            a == cmpIn.a
            b == cmpIn.b
            byName == CaseInsensitiveCompare(a.displayName, b.displayName)
            byField == CaseInsensitiveCompare(PlayerField(a, key), PlayerField(b, key))
            bothSame == /\ KeyNumber(a, key).ok /\ KeyNumber(b, key).ok
                        /\ KeyNumber(a, key).val = KeyNumber(b, key).val
            neither == ~KeyNumber(a, key).ok /\ ~KeyNumber(b, key).ok
        IN  /\ (key \notin NumericKeys \/ bothSame) =>
                cmpOut.ab = DirectionSign * (IF byField # 0 THEN byField ELSE byName)
            /\ (key \in NumericKeys /\ neither) =>
                cmpOut.ab = DirectionSign * byName

\* C7's case: a string key in descending order, the two fields equal but for
\* their case, so that displayName decides.
C7_Witness ==
    /\ CompareDone
    /\ cmpIn.config = [key |-> "position", direction |-> "desc"]
    /\ cmpIn.a.position = <<"Q", "B">> /\ cmpIn.b.position = <<"q", "b">>
    /\ cmpIn.a.displayName = <<"a">> /\ cmpIn.b.displayName = <<"b">>
    /\ cmpOut.ab = 1

-----------------------------------------------------------------------------
(* filterAndSortPlayers *)

\* Array.prototype.join(' ') of a list of strings
RECURSIVE JoinWithSpace(_)
JoinWithSpace(parts) ==
    IF parts = <<>> THEN <<>>
    ELSE IF Len(parts) = 1 THEN parts[1]
    ELSE parts[1] \o <<" ">> \o JoinWithSpace(Tail(parts))

\* Boolean(value) of a `string | null`: null and the empty string are falsy.
Truthy(s) == s # Null /\ s # <<>>

\* The fields the filter reads, in the order of the source.
SearchableFields(player) ==
    <<player.displayName, player.fullName, player.firstName, player.lastName,
      player.jersey, player.position, player.positionAbbreviation,
      player.experience, player.hometown, player.status>>

\* [ ...fields ].filter(Boolean).join(' ').toLowerCase()
Searchable(player) ==
    ToLowerCase(JoinWithSpace(SelectSeq(SearchableFields(player), Truthy)))

\* Array.prototype.sort with comparePlayers.  The sort is stable and
\* comparePlayers is a consistent comparator, so the outcome is the one stable
\* ordering: an element stands behind those that compare less and behind the
\* earlier ones that compare equal.
Precedes(c, j, i) == c < 0 \/ (c = 0 /\ j < i)

\* How many elements of list stand before its i-th in the sorted order.
Rank(list, config, i) ==
    Cardinality({j \in 1..Len(list) :
        j # i /\ Precedes(comparePlayers(list[j], list[i], config), j, i)})

RankedBefore(rj, ri, j, i) == rj < ri \/ (rj = ri /\ j < i)

SortedBy(list, ranks) ==
    [k \in 1..Len(list) |->
        list[CHOOSE i \in 1..Len(list) :
                Cardinality({j \in 1..Len(list) : RankedBefore(ranks[j], ranks[i], j, i)})
                    = k - 1]]

SortPlayers(list, config) ==
    SortedBy(list, [i \in 1..Len(list) |-> Rank(list, config, i)])

\* Mutant: the query is matched as typed, neither trimmed nor lowercased.
filterAndSortPlayers_RawQuery(players, query, sortConfig) ==
    LET Matches(player) == Includes(Searchable(player), query)
        baseList == IF query # <<>> THEN SelectSeq(players, Matches) ELSE players
    IN  [players |-> players, result |-> SortPlayers(baseList, sortConfig)]

\* Mutant: with an empty query the caller's array itself is sorted.
filterAndSortPlayers_SortInPlace(players, query, sortConfig) ==
    LET normalizedQuery == ToLowerCase(Trim(query))
        Matches(player) == Includes(Searchable(player), normalizedQuery)
        baseList == IF normalizedQuery # <<>> THEN SelectSeq(players, Matches) ELSE players
        sorted == SortPlayers(baseList, sortConfig)
    IN  [players |-> IF normalizedQuery # <<>> THEN players ELSE sorted,
         result |-> sorted]

\* Mutant: the list is always sorted in ascending direction.
filterAndSortPlayers_IgnoreDirection(players, query, sortConfig) ==
    LET normalizedQuery == ToLowerCase(Trim(query))
        Matches(player) == Includes(Searchable(player), normalizedQuery)
        baseList == IF normalizedQuery # <<>> THEN SelectSeq(players, Matches) ELSE players
    IN  [players |-> players,
         result |-> SortPlayers(baseList, [sortConfig EXCEPT !.direction = "asc"])]

\* filterAndSortPlayers(players, query, sortConfig): the caller's array as the
\* call leaves it (the sort works on a copy, [...baseList]) and the list returned.
filterAndSortPlayers(players, query, sortConfig) ==
    LET normalizedQuery == ToLowerCase(Trim(query))
        Matches(player) == Includes(Searchable(player), normalizedQuery)
        baseList == IF normalizedQuery # <<>> THEN SelectSeq(players, Matches) ELSE players
    IN  [players |-> players, result |-> SortPlayers(baseList, sortConfig)]

-----------------------------------------------------------------------------
(* filterAndSortPlayers on bounded inputs *)

\* The longest player list given to filterAndSortPlayers.
MaxPlayers == 3

\* Players as useRoster hands them on: parsed ones, and one read back from
\* the cache, where isValidPlayerRecord accepts any string, the empty one
\* included (ListedPlayers' third).
ListedPlayers ==
    { [MkPlayer(<<"1">>, <<"a", "b">>, <<"1", "2">>, <<"Q", "B">>, Dash, Dash, Dash, Dash)
          EXCEPT !.positionAbbreviation = <<"Q", "B">>],
      MkPlayer(<<"2">>, <<"b">>, Dash, <<"B">>, Dash, Dash, Dash, Dash),
      [MkPlayer(<<"3">>, <<"a">>, <<"3">>, <<"x">>, <<>>, Dash, Dash, <<>>)
          EXCEPT !.fullName = <<>>, !.firstName = <<"b">>, !.status = <<>>],
      MkPlayer(<<"4">>, <<"A">>, <<"3", "a">>, <<"q", "b">>, Dash, Dash, Dash, Dash) }

Queries ==
    { <<>>, <<" ">>, <<"q", "b">>, <<"Q", "B">>, <<" ", "q", "B", " ">>,
      <<"a", " ", "b">>, <<"A", " ", "b", " ">>, <<"3">>, <<"x", "x">> }

ListSortConfigs ==
    { [key |-> "jersey", direction |-> "asc"], [key |-> "jersey", direction |-> "desc"],
      [key |-> "displayName", direction |-> "asc"], [key |-> "position", direction |-> "desc"] }

SeqsUpTo(S, n) == UNION {[1..k -> S] : k \in 0..n}

\* Two queries that differ only in letter case or surrounding white space.
SameButCaseAndSpace(q1, q2) == ToLowerCase(Trim(q1)) = ToLowerCase(Trim(q2))

InitFilter ==
    /\ \E ps \in SeqsUpTo(ListedPlayers, MaxPlayers), q \in Queries, q2 \in Queries,
          c \in ListSortConfigs :
            /\ SameButCaseAndSpace(q, q2)
            /\ fsIn = [players |-> ps, query |-> q, query2 |-> q2, sortConfig |-> c]
    /\ fsOut = Idle
    /\ cmpIn = Idle /\ cmpOut = Idle
    /\ neIn = Idle /\ neOut = Idle
    /\ prIn = Idle /\ prOut = Idle
    /\ callIn = Idle /\ callOut = Idle

\* One call with query, and one with the other spelling of the same query.
FilterAndSort ==
    /\ fsOut = Idle
    /\ fsOut' = [pc |-> "done",
                 call |-> filterAndSortPlayers(fsIn.players, fsIn.query, fsIn.sortConfig),
                 call2 |-> filterAndSortPlayers(fsIn.players, fsIn.query2, fsIn.sortConfig)]
    /\ UNCHANGED <<fsIn, cmpIn, cmpOut, neIn, neOut, prIn, prOut, callIn, callOut>>

NextFilter == FilterAndSort

SpecFilter == InitFilter /\ [][NextFilter]_vars

FilterDone == fsOut # Idle

Count(list, x) == Cardinality({i \in 1..Len(list) : list[i] = x})

HasNumber(player) == ParseInt(player.jersey).ok

\* Every player without a jersey number is behind every player with one.
UnparseableLast(list) ==
    \A i, j \in 1..Len(list) :
        (HasNumber(list[i]) /\ ~HasNumber(list[j])) => i < j

UnparseableFirst(list) ==
    \A i, j \in 1..Len(list) :
        (HasNumber(list[i]) /\ ~HasNumber(list[j])) => j < i

Jerseys(list) == [i \in 1..Len(list) |-> list[i].jersey]

\* C6 as stated: sorted by jersey, the players without a number are last in
\* both directions.
C6_Original_UnparseableLastBothDirections ==
    (FilterDone /\ fsIn.sortConfig.key = "jersey") => UnparseableLast(fsOut.call.result)

\* C6 (amended): sorted by jersey, the players without a number are after all
\* numbered ones in ascending direction and before all of them in descending
\* direction: jerseys 12, -, 3 come out as 3, 12, - ascending and as
\* -, 12, 3 descending.
C6_UnparseableLastAscFirstDesc ==
    (FilterDone /\ fsIn.sortConfig.key = "jersey") =>
        /\ fsIn.sortConfig.direction = "asc" => UnparseableLast(fsOut.call.result)
        /\ fsIn.sortConfig.direction = "desc" => UnparseableFirst(fsOut.call.result)
        /\ (Jerseys(fsIn.players) = <<<<"1", "2">>, Dash, <<"3">>>> /\ Trim(fsIn.query) = <<>>) =>
              Jerseys(fsOut.call.result) =
                  IF fsIn.sortConfig.direction = "asc"
                  THEN <<<<"3">>, <<"1", "2">>, Dash>>
                  ELSE <<Dash, <<"1", "2">>, <<"3">>>>

C6_Witness ==
    /\ FilterDone
    /\ fsIn.sortConfig = [key |-> "jersey", direction |-> "desc"]
    /\ Jerseys(fsIn.players) = <<<<"1", "2">>, Dash, <<"3">>>>
    /\ Jerseys(fsOut.call.result) = <<Dash, <<"1", "2">>, <<"3">>>>

\* The text of C8 as stated: the ten fields, only nulls skipped.
NotNull(s) == s # Null
SearchTextNullsSkipped(player) ==
    ToLowerCase(JoinWithSpace(SelectSeq(SearchableFields(player), NotNull)))

\* The text with null and empty fields skipped.
NotNullNorEmpty(s) == s # Null /\ Len(s) > 0
SearchTextEmptySkipped(player) ==
    ToLowerCase(JoinWithSpace(SelectSeq(SearchableFields(player), NotNullNorEmpty)))

\* The result holds each player whose text (by Text) contains the trimmed,
\* lowercased query as often as the input does, and no other player.
ExactlyTheMatching(Text(_)) ==
    LET q == ToLowerCase(Trim(fsIn.query))
    IN  \A p \in ListedPlayers :
            Count(fsOut.call.result, p) =
                IF q = <<>> \/ Includes(Text(p), q) THEN Count(fsIn.players, p) ELSE 0

\* C8 as stated: the result is exactly the players whose space-joined,
\* lowercased text of the ten fields, nulls skipped, contains the query.
C8_Original_NullsSkipped ==
    FilterDone => ExactlyTheMatching(SearchTextNullsSkipped)

\* C8 (amended): the result is exactly the players whose space-joined,
\* lowercased text of the ten fields, null and empty fields skipped, contains
\* the trimmed, lowercased query; an empty query selects every player; no
\* player is dropped, added or duplicated; two queries that differ only in
\* case or surrounding white space give the same result.
C8_ExactlyTheMatching ==
    FilterDone =>
        /\ ExactlyTheMatching(SearchTextEmptySkipped)
        /\ Len(fsOut.call.result) <= Len(fsIn.players)
        /\ Trim(fsIn.query) = <<>> => Len(fsOut.call.result) = Len(fsIn.players)
        /\ fsOut.call2.result = fsOut.call.result

C8_Witness ==
    /\ FilterDone
    /\ fsIn.query = <<"Q", "B">> /\ fsIn.query2 = <<" ", "q", "B", " ">>
    /\ Len(fsIn.players) = 3
    /\ Len(fsOut.call.result) = 2
    /\ \E i \in 1..2 : fsOut.call.result[i].position = <<"q", "b">>

\* C9: the list returned is ordered by comparePlayers under the sort
\* configuration given, and the list passed in is as it was, for an empty
\* query and for a non-empty one.
C9_SortedCopyInputUntouched ==
    FilterDone =>
        /\ fsOut.call.players = fsIn.players
        /\ \A i, j \in 1..Len(fsOut.call.result) :
              i < j => comparePlayers(fsOut.call.result[i], fsOut.call.result[j], fsIn.sortConfig) <= 0

\* C9's case: an empty query and an input that is not in order.
C9_Witness ==
    /\ FilterDone
    /\ fsIn.query = <<>>
    /\ fsIn.sortConfig.direction = "desc"
    /\ Len(fsIn.players) = 3
    /\ fsOut.call.result # fsIn.players
    /\ fsOut.call.players = fsIn.players

-----------------------------------------------------------------------------
(* Decoded JSON values (`unknown` in the source).  t is the kind; s the     *)
(* characters of a string, n a number (1 or 0 for true or false), f the own *)
(* properties of an object, a the elements of an array.                     *)

JUndefined == [t |-> "undefined", s |-> <<>>, n |-> 0, f |-> <<>>, a |-> <<>>]
JNull == [t |-> "null", s |-> <<>>, n |-> 0, f |-> <<>>, a |-> <<>>]
JString(s) == [t |-> "string", s |-> s, n |-> 0, f |-> <<>>, a |-> <<>>]
JNumber(n) == [t |-> "number", s |-> <<>>, n |-> n, f |-> <<>>, a |-> <<>>]
JBoolean(b) == [t |-> "boolean", s |-> <<>>, n |-> IF b THEN 1 ELSE 0, f |-> <<>>, a |-> <<>>]
JObject(f) == [t |-> "object", s |-> <<>>, n |-> 0, f |-> f, a |-> <<>>]
JArray(a) == [t |-> "array", s |-> <<>>, n |-> 0, f |-> <<>>, a |-> a]
JEmptyObject == JObject(<<>>)

\* value && typeof value === 'object'
IsObjectValue(v) == v.t \in {"object", "array"}

\* Boolean(value)
JsTruthy(v) ==
    CASE v.t \in {"undefined", "null"} -> FALSE
      [] v.t = "string" -> v.s # <<>>
      [] v.t = "number" -> v.n # 0
      [] v.t = "boolean" -> v.n = 1
      [] OTHER -> TRUE

\* value.key and value?.key: undefined when value has no such property (the
\* code reads no property a string, number or array has of its own).
Prop(v, key) == IF v.t = "object" /\ key \in DOMAIN v.f THEN v.f[key] ELSE JUndefined

\* Array.isArray(value) ? value : []
ArrayItems(v) == IF v.t = "array" THEN v.a ELSE <<>>

\* a ?? b on `string | null`
Coalesce(a, b) == IF a # Null THEN a ELSE b
\* a ?? b on `number | null`
CoalesceNum(a, b) == IF a.ok THEN a ELSE b

toNumberOrNull(value) == IF value.t = "number" THEN Num(value.n) ELSE NoNum

toStringOrNull(value) == IF value.t = "string" THEN value.s ELSE Null

EmptyToNull(trimmed) == IF trimmed = <<>> THEN Null ELSE trimmed

trimStringOrNull(value) ==
    IF value = Null \/ value = <<>> THEN Null ELSE EmptyToNull(Trim(value))

RECURSIVE NatToString(_)
NatToString(n) ==
    IF n < 10 THEN <<DigitChar(n)>> ELSE NatToString(n \div 10) \o <<DigitChar(n % 10)>>

\* String(value) of an integer
NumberToString(n) == IF n < 0 THEN <<"-">> \o NatToString(-n) ELSE NatToString(n)

toTrimmedString(value) ==
    CASE value.t = "string" -> trimStringOrNull(value.s)
      [] value.t = "number" -> NumberToString(value.n)
      [] OTHER -> Null

\* trimStringOrNull(toStringOrNull(value))
TrimmedString(value) == trimStringOrNull(toStringOrNull(value))

Returned(s) == [threw |-> FALSE, s |-> s]
Thrown == [threw |-> TRUE, s |-> Null]

\* The text of an array element and of the elements after it, joined by ",".
JoinedWith(first, rest, last) ==
    IF first.threw \/ rest.threw THEN Thrown
    ELSE Returned(first.s \o (IF last THEN <<>> ELSE <<",">>) \o rest.s)

\* String(value), for an array from its element i on.  An object is converted
\* by its toString method; a decoded object with an own "toString" property
\* has no callable one (no JSON value is callable), valueOf returns the object,
\* and String throws a TypeError.  An array is the join of its elements, a
\* null or undefined element giving the empty text.
RECURSIVE JsStringFrom(_, _)
JsStringFrom(value, i) ==
    CASE value.t = "string" -> Returned(value.s)
      [] value.t = "number" -> Returned(NumberToString(value.n))
      [] value.t = "boolean" ->
            Returned(IF value.n = 1 THEN <<"t", "r", "u", "e">> ELSE <<"f", "a", "l", "s", "e">>)
      [] value.t = "null" -> Returned(<<"n", "u", "l", "l">>)
      [] value.t = "undefined" -> Returned(<<"u", "n", "d", "e", "f", "i", "n", "e", "d">>)
      [] value.t = "array" ->
            IF i > Len(value.a) THEN Returned(<<>>)
            ELSE JoinedWith(IF value.a[i].t \in {"null", "undefined"} THEN Returned(<<>>)
                            ELSE JsStringFrom(value.a[i], 1),
                            JsStringFrom(value, i + 1),
                            i >= Len(value.a))
      [] value.t = "object" ->
            IF "toString" \in DOMAIN value.f THEN Thrown
            ELSE Returned(<<"[", "o", "b", "j", "e", "c", "t", " ",
                            "O", "b", "j", "e", "c", "t", "]">>)

JsString(value) == JsStringFrom(value, 1)

-----------------------------------------------------------------------------
(* parseTeamNextEvent *)

TEAM_ID == <<"8", "4">>
Home == <<"h", "o", "m", "e">>
Away == <<"a", "w", "a", "y">>

\* boolean | null
TriNull == "null"
Tri(b) == IF b THEN "true" ELSE "false"

\* teamIdValue !== undefined && teamIdValue !== null ? String(teamIdValue) : null
TeamIdString(teamIdValue) ==
    IF teamIdValue.t \in {"undefined", "null"} THEN Returned(Null) ELSE JsString(teamIdValue)

TeamIdOf(competitor) == TeamIdString(Prop(Prop(competitor, "team"), "id"))

HomeAwayOf(competitor) == TrimmedString(Prop(competitor, "homeAway"))

\* if (homeAway) { isHome = homeAway === 'home' }
IsHomeFrom(homeAway, isHome) == IF homeAway # Null THEN Tri(homeAway = Home) ELSE isHome

\* The first competitor that is not our team (lines 423-442), which ends the loop.
OpponentStep(acc, competitor, teamRecord) ==
    [opponent |->
        IF JsTruthy(teamRecord)
        THEN Coalesce(TrimmedString(Prop(teamRecord, "displayName")),
                 Coalesce(TrimmedString(Prop(teamRecord, "nickname")),
                          TrimmedString(Prop(teamRecord, "location"))))
        ELSE acc.opponent,
     opponentAbbreviation |->
        IF JsTruthy(teamRecord)
        THEN Coalesce(TrimmedString(Prop(teamRecord, "abbreviation")), acc.opponentAbbreviation)
        ELSE acc.opponentAbbreviation,
     isHome |-> IsHomeFrom(HomeAwayOf(competitor), acc.isHome),
     opponentRank |->
        IF JsTruthy(Prop(competitor, "curatedRank"))
        THEN CoalesceNum(toNumberOrNull(Prop(Prop(competitor, "curatedRank"), "current")),
                         acc.opponentRank)
        ELSE acc.opponentRank,
     threw |-> FALSE, stop |-> TRUE]

\* One competitor with its team id converted.
CompetitorWithId(acc, competitor, teamId) ==
    IF teamId.threw THEN [acc EXCEPT !.threw = TRUE]
    ELSE IF teamId.s = TEAM_ID
         THEN [acc EXCEPT !.isHome = IsHomeFrom(HomeAwayOf(competitor), acc.isHome)]
         ELSE OpponentStep(acc, competitor, Prop(competitor, "team"))

\* Mutant: the loop has no break.
CompetitorStep_NoBreak(acc, competitor) ==
    IF acc.threw \/ ~IsObjectValue(competitor) THEN acc
    ELSE CompetitorWithId(acc, competitor, TeamIdOf(competitor))

\* One pass of `for (const competitor of competitors)`.
CompetitorStep(acc, competitor) ==
    IF acc.threw \/ acc.stop \/ ~IsObjectValue(competitor) THEN acc
    ELSE CompetitorWithId(acc, competitor, TeamIdOf(competitor))

RECURSIVE CompetitorLoop(_, _)
CompetitorLoop(competitors, acc) ==
    IF competitors = <<>> THEN acc
    ELSE CompetitorLoop(Tail(competitors), CompetitorStep(acc, Head(competitors)))

\* competitors.find(entry => team id === TEAM_ID); the conversion of a team id
\* may throw here as well.
RECURSIVE FindOurCompetitor(_)
FindOurCompetitor(competitors) ==
    IF competitors = <<>> THEN [threw |-> FALSE, entry |-> JUndefined]
    ELSE IF IsObjectValue(Head(competitors)) /\ TeamIdOf(Head(competitors)).threw
         THEN [threw |-> TRUE, entry |-> JUndefined]
    ELSE IF IsObjectValue(Head(competitors)) /\ TeamIdOf(Head(competitors)).s = TEAM_ID
         THEN [threw |-> FALSE, entry |-> Head(competitors)]
    ELSE FindOurCompetitor(Tail(competitors))

\* if (isHome === null) { ... } after the loop (lines 445-468)
IsHomeFallback(acc, ours) ==
    IF ours.threw THEN [acc EXCEPT !.threw = TRUE]
    ELSE IF IsObjectValue(ours.entry)
         THEN [acc EXCEPT !.isHome = IsHomeFrom(HomeAwayOf(ours.entry), acc.isHome)]
         ELSE acc

AfterLoop(acc, competitors) ==
    IF ~acc.threw /\ acc.isHome = TriNull
    THEN IsHomeFallback(acc, FindOurCompetitor(competitors))
    ELSE acc

NoOpponent ==
    [opponent |-> Null, opponentAbbreviation |-> Null, opponentRank |-> NoNum,
     isHome |-> TriNull, threw |-> FALSE, stop |-> FALSE]

\* Lines 401-468 for the competitors of the first competition.
ParseCompetitors(competitors) ==
    AfterLoop(CompetitorLoop(competitors, NoOpponent), competitors)

\* Lines 470-475
ParseVenue(venue) ==
    [venue |-> IF JsTruthy(venue) THEN TrimmedString(Prop(venue, "fullName")) ELSE Null,
     venueCity |->
        IF JsTruthy(Prop(venue, "address"))
        THEN TrimmedString(Prop(Prop(venue, "address"), "city")) ELSE Null,
     venueState |->
        IF JsTruthy(Prop(venue, "address"))
        THEN TrimmedString(Prop(Prop(venue, "address"), "state")) ELSE Null,
     venueCountry |->
        IF JsTruthy(Prop(venue, "address"))
        THEN TrimmedString(Prop(Prop(venue, "address"), "country")) ELSE Null]

MediaName(broadcast) ==
    Coalesce(TrimmedString(Prop(Prop(broadcast, "media"), "shortName")),
             TrimmedString(Prop(Prop(broadcast, "media"), "name")))

InSeq(x, list) == \E i \in 1..Len(list) : list[i] = x

AddBroadcast(broadcasts, broadcast) ==
    IF IsObjectValue(broadcast) /\ MediaName(broadcast) # Null
       /\ ~InSeq(MediaName(broadcast), broadcasts)
    THEN Append(broadcasts, MediaName(broadcast))
    ELSE broadcasts

\* Lines 477-494
RECURSIVE ParseBroadcasts(_, _)
ParseBroadcasts(records, broadcasts) ==
    IF records = <<>> THEN broadcasts
    ELSE ParseBroadcasts(Tail(records), AddBroadcast(broadcasts, Head(records)))

\* ticketsRecords.find(ticket => ticket && typeof ticket === 'object')
RECURSIVE FirstObject(_)
FirstObject(list) ==
    IF list = <<>> THEN JUndefined
    ELSE IF IsObjectValue(Head(list)) THEN Head(list)
    ELSE FirstObject(Tail(list))

\* Lines 496-506
ParseTickets(primaryTicket) ==
    IF IsObjectValue(primaryTicket)
    THEN [ticketsSummary |-> TrimmedString(Prop(primaryTicket, "summary")),
          ticketsStartingPrice |->
              CoalesceNum(toNumberOrNull(Prop(primaryTicket, "startingPrice")),
                          toNumberOrNull(Prop(primaryTicket, "minPrice")))]
    ELSE [ticketsSummary |-> Null, ticketsStartingPrice |-> NoNum]

StatusDetailOf(status) ==
    Coalesce(TrimmedString(Prop(status, "detail")), TrimmedString(Prop(status, "description")))

StatusShortDetailOf(status) ==
    Coalesce(TrimmedString(Prop(status, "shortDetail")), TrimmedString(Prop(status, "type")))

\* Lines 508-527
ParseStatus(status) ==
    IF ~JsTruthy(status) THEN [statusDetail |-> Null, statusShortDetail |-> Null]
    ELSE IF IsObjectValue(Prop(status, "type"))
    THEN [statusDetail |->
              Coalesce(TrimmedString(Prop(Prop(status, "type"), "detail")),
                       StatusDetailOf(status)),
          statusShortDetail |->
              Coalesce(TrimmedString(Prop(Prop(status, "type"), "shortDetail")),
                  Coalesce(TrimmedString(Prop(Prop(status, "type"), "description")),
                           StatusShortDetailOf(status)))]
    ELSE [statusDetail |-> StatusDetailOf(status),
          statusShortDetail |-> StatusShortDetailOf(status)]

\* competitions.length > 0 ? competitions[0] : nothing
FirstCompetition(competitions) ==
    IF competitions = <<>> THEN JUndefined ELSE Head(competitions)

\* A TeamNextEvent | null, or the exception thrown.
NullEvent == [threw |-> FALSE, present |-> FALSE]
ThrownEvent == [threw |-> TRUE, present |-> FALSE]

\* The record returned (lines 534-556), from the parts of the first competition.
BuildEvent(source, id, competitors, venue, broadcasts, tickets, status) ==
    IF competitors.threw THEN ThrownEvent
    ELSE [threw |-> FALSE, present |-> TRUE,
          id |-> id,
          name |-> TrimmedString(Prop(source, "name")),
          shortName |-> TrimmedString(Prop(source, "shortName")),
          date |-> TrimmedString(Prop(source, "date")),
          opponent |-> competitors.opponent,
          opponentAbbreviation |-> competitors.opponentAbbreviation,
          opponentRank |-> competitors.opponentRank,
          isHome |-> competitors.isHome,
          venue |-> venue.venue,
          venueCity |-> venue.venueCity,
          venueState |-> venue.venueState,
          venueCountry |-> venue.venueCountry,
          seasonText |->
              Coalesce(TrimmedString(Prop(Prop(source, "season"), "displayName")),
                       TrimmedString(Prop(source, "seasonType"))),
          weekText |-> TrimmedString(Prop(Prop(source, "week"), "text")),
          broadcasts |-> broadcasts,
          ticketsSummary |-> tickets.ticketsSummary,
          ticketsStartingPrice |-> tickets.ticketsStartingPrice,
          statusDetail |-> status.statusDetail,
          statusShortDetail |-> status.statusShortDetail]

\* The event of a record with an id, its first competition given.
EventOf(source, id, competition) ==
    IF IsObjectValue(competition)
    THEN BuildEvent(source, id,
                    ParseCompetitors(ArrayItems(Prop(competition, "competitors"))),
                    ParseVenue(Prop(competition, "venue")),
                    ParseBroadcasts(ArrayItems(Prop(competition, "broadcasts")), <<>>),
                    ParseTickets(FirstObject(ArrayItems(Prop(competition, "tickets")))),
                    ParseStatus(Prop(competition, "status")))
    ELSE BuildEvent(source, id, NoOpponent, ParseVenue(JUndefined), <<>>,
                    ParseTickets(JUndefined), ParseStatus(JUndefined))

EventWithId(source, id) ==
    IF id = Null THEN NullEvent
    ELSE EventOf(source, id, FirstCompetition(ArrayItems(Prop(source, "competitions"))))

parseTeamNextEvent(record) ==
    IF ~IsObjectValue(record) THEN NullEvent
    ELSE EventWithId(record, toTrimmedString(Prop(record, "id")))

-----------------------------------------------------------------------------
(* parseTeamNextEvent on the next-event records of a team payload *)

MaxCompetitors == 3

\* { team: { id }, homeAway } of our own team
OurCompetitor(teamId, homeAway) ==
    JObject([team |-> JObject([id |-> teamId]), homeAway |-> homeAway])

\* A competitor of another team, with its names and ranking.
OtherCompetitor(name, homeAway) ==
    JObject([team |-> JObject([id |-> JString(<<"2">>),
                               displayName |-> JString(name),
                               abbreviation |-> JString(<<"Q">>)]),
             homeAway |-> homeAway,
             curatedRank |-> JObject([current |-> JNumber(5)])])

Competitors ==
    { OurCompetitor(JString(TEAM_ID), JString(Home)),
      OurCompetitor(JString(TEAM_ID), JString(Away)),
      OurCompetitor(JNumber(84), JUndefined),
      OtherCompetitor(<<"b">>, JString(Home)),
      OtherCompetitor(<<"b">>, JString(Away)),
      OtherCompetitor(<<"b">>, JUndefined),
      OtherCompetitor(<<"a">>, JString(<<" ", "h", "o", "m", "e">>)),
      OurCompetitor(JObject([toString |-> JNumber(1)]), JString(Home)),
      JObject([team |-> JObject([id |-> JString(<<"3">>), nickname |-> JString(<<"x">>),
                                 location |-> JString(<<"q">>)])]),
      JObject([team |-> JObject([id |-> JNumber(4), displayName |-> JString(<<" ">>),
                                 location |-> JString(<<"q">>),
                                 abbreviation |-> JString(<<"X">>)]),
               curatedRank |-> JObject([current |-> JString(<<"1">>)])]),
      JObject([homeAway |-> JString(Away)]),
      JNull }

EventRecord(id, competitors) ==
    JObject([id |-> id,
             name |-> JString(<<"a", " ", "b">>),
             competitions |-> JArray(<<JObject([competitors |-> JArray(competitors)])>>)])

NextEventRecords ==
    { EventRecord(JString(<<"1">>), cs) : cs \in SeqsUpTo(Competitors, MaxCompetitors) }
    \cup { EventRecord(id, <<OurCompetitor(JString(TEAM_ID), JString(Home))>>) :
             id \in {JNumber(7), JString(<<" ">>), JNull, JUndefined} }
    \cup { JNull, JString(<<"a">>), JEmptyObject,
           JObject([id |-> JString(<<"1">>)]),
           JObject([id |-> JString(<<"1">>), competitions |-> JArray(<<JNull>>)]) }

InitNextEvent ==
    /\ \E record \in NextEventRecords : neIn = [record |-> record]
    /\ neOut = Idle
    /\ cmpIn = Idle /\ cmpOut = Idle
    /\ fsIn = Idle /\ fsOut = Idle
    /\ prIn = Idle /\ prOut = Idle
    /\ callIn = Idle /\ callOut = Idle

ParseNextEvent ==
    /\ neOut = Idle
    /\ neOut' = [pc |-> "done", event |-> parseTeamNextEvent(neIn.record)]
    /\ UNCHANGED <<neIn, cmpIn, cmpOut, fsIn, fsOut, prIn, prOut, callIn, callOut>>

NextNextEvent == ParseNextEvent

SpecNextEvent == InitNextEvent /\ [][NextNextEvent]_vars

NextEventDone == neOut # Idle

\* The competitors of the first competition of the parsed record.
GivenCompetitors ==
    ArrayItems(Prop(FirstCompetition(ArrayItems(Prop(neIn.record, "competitions"))),
                    "competitors"))

\* A competitor entry of our own team that carries a homeAway value.
IsOurEntryWithHomeAway(competitor) ==
    /\ IsObjectValue(competitor)
    /\ ~TeamIdOf(competitor).threw
    /\ TeamIdOf(competitor).s = TEAM_ID
    /\ HomeAwayOf(competitor) # Null

\* C10: isHome is taken from our own team's competitor entry (team id equal to
\* TEAM_ID) whenever that entry exists with a homeAway value: it is true exactly
\* when that entry's homeAway is "home", whatever the opponent's entry says.
C10_IsHomeFromOurEntry ==
    (NextEventDone /\ neOut.event.present) =>
        \A i \in 1..Len(GivenCompetitors) :
            (/\ IsOurEntryWithHomeAway(GivenCompetitors[i])
             /\ \A j \in 1..Len(GivenCompetitors) :
                    IsOurEntryWithHomeAway(GivenCompetitors[j]) =>
                        HomeAwayOf(GivenCompetitors[j]) = HomeAwayOf(GivenCompetitors[i]))
            => neOut.event.isHome = Tri(HomeAwayOf(GivenCompetitors[i]) = Home)

\* What the code does with { our entry "home", opponent entry "away" }.
C10_Divergence ==
    /\ NextEventDone
    /\ GivenCompetitors = <<OurCompetitor(JString(TEAM_ID), JString(Home)),
                            OtherCompetitor(<<"b">>, JString(Away))>>
    /\ neOut.event.present
    /\ neOut.event.isHome = "false"

-----------------------------------------------------------------------------
(* mapPlayersFromPayload *)

\* One entry of normalizePlayerInjuries: the injury, before the all-null test.
InjuryStatus(statusValue) ==
    IF statusValue.t = "string" THEN trimStringOrNull(statusValue.s)
    ELSE IF IsObjectValue(statusValue)
    THEN Coalesce(TrimmedString(Prop(statusValue, "description")),
             Coalesce(TrimmedString(Prop(statusValue, "detail")),
                 Coalesce(TrimmedString(Prop(statusValue, "type")),
                          TrimmedString(Prop(statusValue, "name")))))
    ELSE Null

InjuryOf(record) ==
    [id |-> toTrimmedString(Prop(record, "id")),
     type |-> toTrimmedString(Prop(record, "type")),
     status |-> InjuryStatus(Prop(record, "status")),
     description |-> Coalesce(TrimmedString(Prop(record, "description")),
                              TrimmedString(Prop(record, "detail"))),
     date |-> toTrimmedString(Prop(record, "date"))]

HasInjuryValue(injury) ==
    \/ injury.id # Null \/ injury.type # Null \/ injury.status # Null
    \/ injury.description # Null \/ injury.date # Null

\* Mutant: an injury whose five fields are all null is kept.
IsInjuryEntry_KeepEmpty(entry) == IsObjectValue(entry)

\* The entries normalizePlayerInjuries keeps.
IsInjuryEntry(entry) == IsObjectValue(entry) /\ HasInjuryValue(InjuryOf(entry))

RECURSIVE InjuriesOf(_)
InjuriesOf(entries) ==
    IF entries = <<>> THEN <<>>
    ELSE (IF IsInjuryEntry(Head(entries)) THEN <<InjuryOf(Head(entries))>> ELSE <<>>)
         \o InjuriesOf(Tail(entries))

normalizePlayerInjuries(value) == InjuriesOf(ArrayItems(value))

\* String(idValue).trim()
TrimReturned(r) == IF r.threw THEN r ELSE Returned(Trim(r.s))

\* idValue !== undefined && idValue !== null ? String(idValue).trim() : ''
IdString(idValue) ==
    IF idValue.t \in {"undefined", "null"} THEN Returned(<<>>)
    ELSE TrimReturned(JsString(idValue))

\* displayName ?? fullName ?? ''
AthleteDisplayName(record) ==
    Coalesce(TrimmedString(Prop(record, "displayName")),
             Coalesce(TrimmedString(Prop(record, "fullName")), <<>>))

\* Mutant: an absent value stays null.
OrDash_KeepNull(s) == s

OrDash(s) == Coalesce(s, Dash)

PositionDisplay(positionRecord) ==
    Coalesce(TrimmedString(Prop(positionRecord, "displayName")),
             OrDash(TrimmedString(Prop(positionRecord, "abbreviation"))))

BirthCountry(birthPlace, birthCountryRecord) ==
    Coalesce(TrimmedString(Prop(birthPlace, "country")),
             Coalesce(TrimmedString(Prop(birthCountryRecord, "name")),
                      TrimmedString(Prop(birthCountryRecord, "abbreviation"))))

\* birthState || birthCountry
StateOrCountry(birthState, birthCountry) ==
    IF Truthy(birthState) THEN birthState ELSE birthCountry

RECURSIVE JoinWithComma(_)
JoinWithComma(parts) ==
    IF parts = <<>> THEN <<>>
    ELSE IF Len(parts) = 1 THEN parts[1]
    ELSE parts[1] \o <<",", " ">> \o JoinWithComma(Tail(parts))

\* joined || '&mdash;'
JoinedOrDash(joined) == IF joined = <<>> THEN Dash ELSE joined

\* [birthCity, birthState || birthCountry].filter(Boolean).join(', ') || '&mdash;'
Hometown(birthCity, stateOrCountry) ==
    JoinedOrDash(JoinWithComma(SelectSeq(<<birthCity, stateOrCountry>>, Truthy)))

HometownOf(birthPlace, birthCountryRecord) ==
    Hometown(TrimmedString(Prop(birthPlace, "city")),
             StateOrCountry(TrimmedString(Prop(birthPlace, "state")),
                            BirthCountry(birthPlace, birthCountryRecord)))

StatusDisplay(statusRecord) ==
    Coalesce(TrimmedString(Prop(statusRecord, "name")),
             OrDash(TrimmedString(Prop(statusRecord, "type"))))

Active == <<"a", "c", "t", "i", "v", "e">>

\* typeof record.active === 'boolean' ? record.active
\*                                     : statusType?.toLowerCase() === 'active'
IsActive(active, statusType) ==
    IF active.t = "boolean" THEN active.n = 1
    ELSE statusType # Null /\ ToLowerCase(statusType) = Active

\* The Player of a record that has an id and a display name (lines 700-797).
PlayerOf(record, id, displayName) ==
    [id |-> id,
     uid |-> TrimmedString(Prop(record, "uid")),
     guid |-> TrimmedString(Prop(record, "guid")),
     displayName |-> displayName,
     fullName |-> TrimmedString(Prop(record, "fullName")),
     firstName |-> TrimmedString(Prop(record, "firstName")),
     lastName |-> TrimmedString(Prop(record, "lastName")),
     shortName |-> TrimmedString(Prop(record, "shortName")),
     jersey |-> OrDash(TrimmedString(Prop(record, "jersey"))),
     position |-> PositionDisplay(Prop(record, "position")),
     positionAbbreviation |-> TrimmedString(Prop(Prop(record, "position"), "abbreviation")),
     positionName |-> Coalesce(TrimmedString(Prop(Prop(record, "position"), "name")),
                               PositionDisplay(Prop(record, "position"))),
     positionId |-> toTrimmedString(Prop(Prop(record, "position"), "id")),
     experience |-> OrDash(TrimmedString(Prop(Prop(record, "experience"), "displayValue"))),
     experienceAbbreviation |->
         TrimmedString(Prop(Prop(record, "experience"), "abbreviation")),
     experienceYears |-> toNumberOrNull(Prop(Prop(record, "experience"), "years")),
     height |-> OrDash(TrimmedString(Prop(record, "displayHeight"))),
     weight |-> OrDash(TrimmedString(Prop(record, "displayWeight"))),
     hometown |-> HometownOf(Prop(record, "birthPlace"), Prop(record, "birthCountry")),
     birthCity |-> TrimmedString(Prop(Prop(record, "birthPlace"), "city")),
     birthState |-> TrimmedString(Prop(Prop(record, "birthPlace"), "state")),
     birthCountry |-> BirthCountry(Prop(record, "birthPlace"), Prop(record, "birthCountry")),
     birthCountryAbbreviation |->
         TrimmedString(Prop(Prop(record, "birthCountry"), "abbreviation")),
     flagUrl |-> TrimmedString(Prop(Prop(record, "flag"), "href")),
     flagAlt |-> TrimmedString(Prop(Prop(record, "flag"), "alt")),
     status |-> StatusDisplay(Prop(record, "status")),
     statusType |-> TrimmedString(Prop(Prop(record, "status"), "type")),
     statusAbbreviation |-> TrimmedString(Prop(Prop(record, "status"), "abbreviation")),
     isActive |-> IsActive(Prop(record, "active"),
                           TrimmedString(Prop(Prop(record, "status"), "type"))),
     slug |-> TrimmedString(Prop(record, "slug")),
     type |-> TrimmedString(Prop(record, "type")),
     injuries |-> normalizePlayerInjuries(Prop(record, "injuries"))]

\* The players so far, or the exception thrown.
NoPlayers == [threw |-> FALSE, players |-> <<>>]
ThrownPlayers == [threw |-> TRUE, players |-> <<>>]

\* if (!id || !displayName) return null
MapRecord(record, id) ==
    IF id.threw THEN ThrownPlayers
    ELSE IF id.s = <<>> \/ AthleteDisplayName(record) = <<>> THEN NoPlayers
    ELSE [threw |-> FALSE, players |-> <<PlayerOf(record, id.s, AthleteDisplayName(record))>>]

\* The callback of .map, with .filter(player => player !== null) applied: no
\* player or one.
MapAthlete(athlete) ==
    IF ~IsObjectValue(athlete) THEN NoPlayers
    ELSE MapRecord(athlete, IdString(Prop(athlete, "id")))

ThenPlayers(first, rest) ==
    IF first.threw \/ rest.threw THEN ThrownPlayers
    ELSE [threw |-> FALSE, players |-> first.players \o rest.players]

RECURSIVE MapAthletes(_)
MapAthletes(athletes) ==
    IF athletes = <<>> THEN NoPlayers
    ELSE ThenPlayers(MapAthlete(Head(athletes)), MapAthletes(Tail(athletes)))

\* payload?.team?.athletes ?? [], and [] when that is not an array
AthletesOf(payload) == ArrayItems(Prop(Prop(payload, "team"), "athletes"))

mapPlayersFromPayload(payload) == MapAthletes(AthletesOf(payload))

-----------------------------------------------------------------------------
(* sortPlayersByJersey *)

CompareJerseys(aNumber, bNumber, a, b) ==
    IF ~aNumber.ok /\ ~bNumber.ok THEN LocaleCompare(a.displayName, b.displayName)
    ELSE IF ~aNumber.ok THEN 1
    ELSE IF ~bNumber.ok THEN -1
    ELSE aNumber.val - bNumber.val

\* The comparator of sortPlayersByJersey.
JerseyCompare(a, b) == CompareJerseys(ParseInt(a.jersey), ParseInt(b.jersey), a, b)

JerseyRank(list, i) ==
    Cardinality({j \in 1..Len(list) :
        j # i /\ Precedes(JerseyCompare(list[j], list[i]), j, i)})

\* Mutant: the players are returned in the order of the payload.
sortPlayersByJersey_Unsorted(players) == players

\* [...players].sort(comparator): a stable sort of a copy.
sortPlayersByJersey(players) ==
    SortedBy(players, [i \in 1..Len(players) |-> JerseyRank(players, i)])

-----------------------------------------------------------------------------
(* parseTeamRecord *)

RECORD_STAT_KEYS ==
    <<"wins", "losses", "ties", "streak", "pointsFor", "pointsAgainst",
      "avgPointsFor", "avgPointsAgainst", "pointDifferential">>

StatKeys == {RECORD_STAT_KEYS[i] : i \in 1..Len(RECORD_STAT_KEYS)}

\* The statName of RECORD_STAT_MAPPINGS for a key, as the text of a `name`.
StatName(key) ==
    CASE key = "wins" -> <<"w", "i", "n", "s">>
      [] key = "losses" -> <<"l", "o", "s", "s", "e", "s">>
      [] key = "ties" -> <<"t", "i", "e", "s">>
      [] key = "streak" -> <<"s", "t", "r", "e", "a", "k">>
      [] key = "pointsFor" -> <<"p", "o", "i", "n", "t", "s", "F", "o", "r">>
      [] key = "pointsAgainst" ->
            <<"p", "o", "i", "n", "t", "s", "A", "g", "a", "i", "n", "s", "t">>
      [] key = "avgPointsFor" -> <<"a", "v", "g", "P", "o", "i", "n", "t", "s", "F", "o", "r">>
      [] key = "avgPointsAgainst" ->
            <<"a", "v", "g", "P", "o", "i", "n", "t", "s", "A", "g", "a", "i", "n", "s", "t">>
      [] key = "pointDifferential" ->
            <<"p", "o", "i", "n", "t", "D", "i", "f", "f", "e", "r", "e", "n", "t", "i", "a", "l">>

createEmptyRecordStats == [key \in StatKeys |-> NoNum]

\* A TeamRecordStats | null
NullStats == [present |-> FALSE, stats |-> createEmptyRecordStats]

\* hasValue ? stats : null
StatsOrNull(stats) ==
    IF \E key \in StatKeys : stats[key].ok THEN [present |-> TRUE, stats |-> stats]
    ELSE NullStats

\* values.set(name, value) for an entry with a name and a number
IsStatEntry(entry, name) ==
    /\ IsObjectValue(entry)
    /\ Prop(entry, "name").t = "string"
    /\ Prop(entry, "name").s = name
    /\ name # <<>>
    /\ toNumberOrNull(Prop(entry, "value")).ok

\* Mutant: a name set twice keeps its first value.
MapGet_FirstSet(rawStats, name, i) ==
    IF \E k \in 1..i : IsStatEntry(rawStats[k], name)
    THEN toNumberOrNull(Prop(rawStats[CHOOSE k \in 1..i :
                                 /\ IsStatEntry(rawStats[k], name)
                                 /\ \A j \in 1..(k - 1) : ~IsStatEntry(rawStats[j], name)],
                             "value"))
    ELSE NoNum

\* values.get(statName): the value set last, none when never set
RECURSIVE MapGet(_, _, _)
MapGet(rawStats, name, i) ==
    IF i = 0 THEN NoNum
    ELSE IF IsStatEntry(rawStats[i], name) THEN toNumberOrNull(Prop(rawStats[i], "value"))
    ELSE MapGet(rawStats, name, i - 1)

extractRecordStatsFromPayload(rawStats) ==
    IF rawStats.t # "array" THEN NullStats
    ELSE StatsOrNull([key \in StatKeys |-> MapGet(rawStats.a, StatName(key), Len(rawStats.a))])

\* Mutant: a struct is returned even when no field was populated.
normalizeRecordStats_AlwaysStruct(value) ==
    IF ~IsObjectValue(value) THEN NullStats
    ELSE [present |-> TRUE, stats |-> [key \in StatKeys |-> toNumberOrNull(Prop(value, key))]]

normalizeRecordStats(value) ==
    IF ~IsObjectValue(value) THEN NullStats
    ELSE StatsOrNull([key \in StatKeys |-> toNumberOrNull(Prop(value, key))])

Total == <<"t", "o", "t", "a", "l">>
OverallRecord == <<"O", "v", "e", "r", "a", "l", "l", " ", "R", "e", "c", "o", "r", "d">>

\* typeof value === 'string' ? value : ''
StringOrEmpty(value) == IF value.t = "string" THEN value.s ELSE <<>>

\* The item the loop of parseTeamRecord stops at.
IsTotalItem(item) ==
    /\ IsObjectValue(item)
    /\ (StringOrEmpty(Prop(item, "type")) = Total
        \/ StringOrEmpty(Prop(item, "description")) = OverallRecord)

\* Mutant: the loop does not stop at the first match; the last one decides.
RECURSIVE FirstTotalItem_Last(_)
FirstTotalItem_Last(items) ==
    IF items = <<>> THEN JUndefined
    ELSE IF IsTotalItem(items[Len(items)]) THEN items[Len(items)]
    ELSE FirstTotalItem_Last(SubSeq(items, 1, Len(items) - 1))

RECURSIVE FirstTotalItem(_)
FirstTotalItem(items) ==
    IF items = <<>> THEN JUndefined
    ELSE IF IsTotalItem(Head(items)) THEN Head(items)
    ELSE FirstTotalItem(Tail(items))

\* if (typeof summary === 'string' && summary.trim()) result.summary = summary.trim()
SummaryFrom(summary, previous) ==
    IF summary.t = "string" /\ Trim(summary.s) # <<>> THEN Trim(summary.s) ELSE previous

\* if (stats) result.stats = stats, on a result whose stats are null
RecordOfItem(item, teamSummary) ==
    IF item.t = "undefined" THEN [summary |-> teamSummary, stats |-> NullStats]
    ELSE [summary |-> SummaryFrom(Prop(item, "summary"), teamSummary),
          stats |-> extractRecordStatsFromPayload(Prop(item, "stats"))]

RecordOfTeam(team, teamSummary) ==
    IF ~IsObjectValue(Prop(team, "record")) \/ Prop(Prop(team, "record"), "items").t # "array"
    THEN [summary |-> teamSummary, stats |-> NullStats]
    ELSE RecordOfItem(FirstTotalItem(Prop(Prop(team, "record"), "items").a), teamSummary)

EmptyTeamRecord == [summary |-> Null, stats |-> NullStats]

parseTeamRecord(payload) ==
    IF ~IsObjectValue(payload) \/ ~IsObjectValue(Prop(payload, "team")) THEN EmptyTeamRecord
    ELSE RecordOfTeam(Prop(payload, "team"),
                      SummaryFrom(Prop(Prop(payload, "team"), "recordSummary"), Null))

-----------------------------------------------------------------------------
(* parseTeamMeta *)

createEmptyTeamMeta ==
    [rank |-> NoNum, standingSummary |-> Null, displayName |-> Null,
     shortDisplayName |-> Null, location |-> Null, nickname |-> Null,
     abbreviation |-> Null, color |-> Null, alternateColor |-> Null,
     nextEvent |-> NullEvent]

\* The nine fields both normalizers copy, with the next event given.
MetaOf(record, nextEvent) ==
    [rank |-> toNumberOrNull(Prop(record, "rank")),
     standingSummary |-> TrimmedString(Prop(record, "standingSummary")),
     displayName |-> TrimmedString(Prop(record, "displayName")),
     shortDisplayName |-> TrimmedString(Prop(record, "shortDisplayName")),
     location |-> TrimmedString(Prop(record, "location")),
     nickname |-> TrimmedString(Prop(record, "nickname")),
     abbreviation |-> TrimmedString(Prop(record, "abbreviation")),
     color |-> TrimmedString(Prop(record, "color")),
     alternateColor |-> TrimmedString(Prop(record, "alternateColor")),
     nextEvent |-> nextEvent]

\* A TeamMeta, or the exception thrown.
MetaWithEvent(teamRecord, parsedNextEvent) ==
    IF parsedNextEvent.threw THEN [threw |-> TRUE, meta |-> createEmptyTeamMeta]
    ELSE [threw |-> FALSE, meta |-> MetaOf(teamRecord, parsedNextEvent)]

\* Array.isArray(teamRecord.nextEvent) ? teamRecord.nextEvent[0] : null
FirstNextEvent(nextEvent) ==
    IF nextEvent.t = "array" /\ nextEvent.a # <<>> THEN nextEvent.a[1]
    ELSE IF nextEvent.t = "array" THEN JUndefined
    ELSE JNull

parseTeamMeta(payload) ==
    IF ~IsObjectValue(payload) \/ ~IsObjectValue(Prop(payload, "team"))
    THEN [threw |-> FALSE, meta |-> createEmptyTeamMeta]
    ELSE MetaWithEvent(Prop(payload, "team"),
                       parseTeamNextEvent(FirstNextEvent(Prop(Prop(payload, "team"), "nextEvent"))))

-----------------------------------------------------------------------------
(* parseRosterPayload *)

\* { players, teamRecord, teamMeta }, or the exception thrown by a part.
RosterOf(teamRecord, teamMeta, mapped) ==
    IF teamMeta.threw \/ mapped.threw
    THEN [threw |-> TRUE, players |-> <<>>, teamRecord |-> EmptyTeamRecord,
          teamMeta |-> createEmptyTeamMeta]
    ELSE [threw |-> FALSE, players |-> sortPlayersByJersey(mapped.players),
          teamRecord |-> teamRecord, teamMeta |-> teamMeta.meta]

parseRosterPayload(payload) ==
    RosterOf(parseTeamRecord(payload), parseTeamMeta(payload), mapPlayersFromPayload(payload))

-----------------------------------------------------------------------------
(* parseRosterPayload on decoded payloads of the roster endpoint *)

MaxAthletes == 2

Athletes ==
    { \* every field present
      JObject([id |-> JString(<<"7">>), displayName |-> JString(<<" ", "b", " ">>),
               fullName |-> JString(<<"b", " ", "q">>), firstName |-> JString(<<"b">>),
               jersey |-> JString(<<" ", "1", "2">>),
               position |-> JObject([displayName |-> JString(<<"Q", "B">>),
                                     abbreviation |-> JString(<<"Q">>),
                                     id |-> JNumber(8)]),
               experience |-> JObject([displayValue |-> JString(<<"x">>), years |-> JNumber(2)]),
               displayHeight |-> JString(<<"6", "'", " ", "2">>),
               displayWeight |-> JString(<<"2", "1", "0", " ", "b">>),
               birthPlace |-> JObject([city |-> JString(<<"a">>), state |-> JString(<<"b">>),
                                       country |-> JString(<<"q">>)]),
               status |-> JObject([name |-> JString(<<"A">>), type |-> JString(Active)]),
               injuries |-> JArray(<<JObject([status |-> JString(<<"x">>)]),
                                     JEmptyObject, JNull>>)]),
      \* a numeric id, the name from fullName, nothing else
      JObject([id |-> JNumber(3), fullName |-> JString(<<"a">>)]),
      \* blank or non-string sources, the second source of position and status
      JObject([id |-> JString(<<"8">>), displayName |-> JString(<<"A">>),
               jersey |-> JString(<<" ">>),
               position |-> JObject([displayName |-> JString(<<" ">>),
                                     abbreviation |-> JString(<<"x">>)]),
               experience |-> JObject([displayValue |-> JNumber(1)]),
               displayHeight |-> JNumber(74),
               displayWeight |-> JString(<<>>),
               birthPlace |-> JObject([city |-> JString(<<" ">>), country |-> JString(<<"q">>)]),
               status |-> JObject([type |-> JString(<<"x">>)]),
               active |-> JBoolean(TRUE)]),
      \* sub-structures that are not objects, a city and the country's name
      JObject([id |-> JString(<<"9">>), displayName |-> JString(<<"a">>),
               jersey |-> JString(<<"3", "a">>),
               position |-> JString(<<"Q", "B">>),
               experience |-> JNull,
               birthPlace |-> JObject([city |-> JString(<<"a">>)]),
               birthCountry |-> JObject([name |-> JString(<<"b">>)]),
               status |-> JArray(<<>>)]),
      \* a city alone, and a jersey shared with the first athlete
      JObject([id |-> JString(<<"6">>), displayName |-> JString(<<"B">>),
               jersey |-> JNumber(12),
               birthPlace |-> JObject([city |-> JString(<<"x">>)])]),
      JObject([id |-> JEmptyObject, displayName |-> JString(<<"q">>),
               jersey |-> JString(<<"1", "2">>)]),
      \* entries without an id or without a name
      JObject([id |-> JString(<<" ">>), displayName |-> JString(<<"a">>)]),
      JObject([id |-> JArray(<<>>), displayName |-> JString(<<"a">>)]),
      JObject([id |-> JString(<<"5">>), displayName |-> JNumber(1),
               fullName |-> JString(<<" ">>)]),
      JEmptyObject,
      \* entries that are not objects
      JNull,
      JString(<<"a">>),
      \* an id that has no text
      JObject([id |-> JObject([toString |-> JNumber(1)]), displayName |-> JString(<<"a">>)]) }

\* The parts of `team` besides the athletes.
Teams ==
    { <<>>,
      [recordSummary |-> JString(<<" ", "1", "-", "0">>),
       record |-> JObject([items |-> JArray(<<
           JNull,
           JObject([type |-> JString(<<"h", "o", "m", "e">>),
                    summary |-> JString(<<"0", "-", "0">>)]),
           JObject([type |-> JString(Total), summary |-> JString(<<"2", "-", "1">>),
                    stats |-> JArray(<<
                        JObject([name |-> JString(<<"w", "i", "n", "s">>), value |-> JNumber(2)]),
                        JObject([name |-> JString(<<"t", "i", "e", "s">>),
                                 value |-> JString(<<"0">>)]),
                        JObject([name |-> JString(<<"w", "i", "n", "s">>), value |-> JNumber(3)])
                        >>)]) >>)]),
       rank |-> JNumber(5),
       displayName |-> JString(<<" ", "a", " ">>),
       nextEvent |-> JArray(<<EventRecord(JString(<<"1">>),
                                <<OurCompetitor(JString(TEAM_ID), JString(Home)),
                                  OtherCompetitor(<<"b">>, JUndefined)>>)>>)],
      \* malformed sub-structures
      [recordSummary |-> JNumber(1),
       record |-> JString(<<"a">>),
       rank |-> JString(<<"5">>),
       nextEvent |-> JEmptyObject],
      [record |-> JObject([items |-> JEmptyObject]),
       nextEvent |-> JArray(<<JObject([
           id |-> JString(<<"1">>),
           competitions |-> JArray(<<JObject([
               competitors |-> JArray(<<JString(<<"a">>)>>),
               venue |-> JString(<<"a">>),
               status |-> JNumber(1)])>>)])>>)],
      \* a competitor whose team id has no text
      [nextEvent |-> JArray(<<EventRecord(JString(<<"1">>),
                                <<OurCompetitor(JObject([toString |-> JNumber(1)]),
                                                JString(Home))>>)>>)] }

\* { team: { ...team, athletes } }
TeamWith(team, athletes) ==
    JObject([key \in DOMAIN team \cup {"athletes"} |->
                IF key = "athletes" THEN athletes ELSE team[key]])

Payloads ==
    { JObject([team |-> TeamWith(team, JArray(athletes))]) :
          team \in Teams, athletes \in SeqsUpTo(Athletes, MaxAthletes) }
    \cup { JObject([team |-> TeamWith(team, JEmptyObject)]) : team \in Teams }
    \cup { JNull, JNumber(1), JString(<<"a">>), JArray(<<>>), JEmptyObject,
           JObject([team |-> JNull]), JObject([team |-> JString(<<"a">>)]),
           JObject([athletes |-> JArray(<<JObject([id |-> JString(<<"7">>),
                                                  displayName |-> JString(<<"b">>)])>>)]) }

InitParse ==
    /\ \E payload \in Payloads : prIn = [payload |-> payload]
    /\ prOut = Idle
    /\ cmpIn = Idle /\ cmpOut = Idle
    /\ fsIn = Idle /\ fsOut = Idle
    /\ neIn = Idle /\ neOut = Idle
    /\ callIn = Idle /\ callOut = Idle

\* One call of parseRosterPayload; mapped is what its call of
\* mapPlayersFromPayload returns.
ParseRoster ==
    /\ prOut = Idle
    /\ prOut' = [pc |-> "done",
                 mapped |-> mapPlayersFromPayload(prIn.payload),
                 roster |-> parseRosterPayload(prIn.payload)]
    /\ UNCHANGED <<prIn, cmpIn, cmpOut, fsIn, fsOut, neIn, neOut, callIn, callOut>>

NextParse == ParseRoster

SpecParse == InitParse /\ [][NextParse]_vars

ParseDone == prOut # Idle

\* The payload has an object-valued `team`.
HasTeam(payload) == IsObjectValue(payload) /\ IsObjectValue(Prop(payload, "team"))

GivenTeam == Prop(prIn.payload, "team")

\* C1: parseRosterPayload returns a triple for every decoded payload and never
\* throws; without an object-valued team the triple is the empty player list,
\* the record {summary: null, stats: null} and the TeamMeta of nulls; athletes
\* that are no array give no players, a record that is no object gives no
\* stats, a nextEvent that is no array gives no next event.
C1_TotalNeverThrows ==
    ParseDone =>
        /\ ~prOut.roster.threw
        /\ ~HasTeam(prIn.payload) =>
              /\ prOut.roster.players = <<>>
              /\ prOut.roster.teamRecord = EmptyTeamRecord
              /\ prOut.roster.teamMeta = createEmptyTeamMeta
        /\ Prop(GivenTeam, "athletes").t # "array" => prOut.roster.players = <<>>
        /\ ~IsObjectValue(Prop(GivenTeam, "record")) => ~prOut.roster.teamRecord.stats.present
        /\ Prop(GivenTeam, "nextEvent").t # "array" => ~prOut.roster.teamMeta.nextEvent.present

\* What the code does with an athlete whose id is { "toString": 1 }.
C1_Divergence ==
    /\ ParseDone
    /\ prIn.payload = JObject([team |-> JObject([athletes |-> JArray(<<
           JObject([id |-> JObject([toString |-> JNumber(1)]),
                    displayName |-> JString(<<"a">>)])>>)])])
    /\ prOut.roster.threw

\* The text a value is when it is a string that is not blank, null otherwise.
TextOf(value) ==
    IF value.t = "string" /\ Trim(value.s) # <<>> THEN Trim(value.s) ELSE Null

\* The name an entry resolves to: displayName or, failing that, fullName.
ResolvedName(entry) ==
    IF TextOf(Prop(entry, "displayName")) # Null THEN TextOf(Prop(entry, "displayName"))
    ELSE TextOf(Prop(entry, "fullName"))

\* The id of the entry resolves to a non-empty trimmed string.
IdResolves(entry) ==
    /\ Prop(entry, "id").t \notin {"undefined", "null"}
    /\ ~JsString(Prop(entry, "id")).threw
    /\ Trim(JsString(Prop(entry, "id")).s) # <<>>

IsValidEntry(entry) ==
    IsObjectValue(entry) /\ IdResolves(entry) /\ ResolvedName(entry) # Null

ValidEntries == SelectSeq(AthletesOf(prIn.payload), IsValidEntry)

\* C2: mapPlayersFromPayload outputs exactly one Player for each entry that is
\* an object whose id and whose displayName (or fullName) resolve to non-empty
\* trimmed strings, nothing for every other entry, in the order of the source,
\* and raises no exception for an entry it drops.
C2_ExactlyTheValidEntries ==
    ParseDone =>
        /\ ~prOut.mapped.threw
        /\ Len(prOut.mapped.players) = Len(ValidEntries)
        /\ \A i \in 1..Len(ValidEntries) :
              /\ prOut.mapped.players[i].id = Trim(JsString(Prop(ValidEntries[i], "id")).s)
              /\ prOut.mapped.players[i].displayName = ResolvedName(ValidEntries[i])

\* What the code does with a valid entry before one whose id has no text.
C2_Divergence ==
    /\ ParseDone
    /\ Len(AthletesOf(prIn.payload)) = 2
    /\ Len(ValidEntries) = 1
    /\ IsValidEntry(AthletesOf(prIn.payload)[1])
    /\ prOut.mapped.threw

NonEmptyText(s) == s # Null /\ s # <<>>

FirstText(a, b) == IF a # Null THEN a ELSE b

TextOrDash(s) == IF s # Null THEN s ELSE Dash

\* The state, or failing that the country, of an entry's birth place.
StateOrCountryOf(entry) ==
    FirstText(TextOf(Prop(Prop(entry, "birthPlace"), "state")),
        FirstText(TextOf(Prop(Prop(entry, "birthPlace"), "country")),
            FirstText(TextOf(Prop(Prop(entry, "birthCountry"), "name")),
                      TextOf(Prop(Prop(entry, "birthCountry"), "abbreviation")))))

JoinedHometown(city, stateOrCountry) ==
    IF city # Null /\ stateOrCountry # Null THEN city \o <<",", " ">> \o stateOrCountry
    ELSE TextOrDash(FirstText(city, stateOrCountry))

DashDefaults(player, entry) ==
    /\ \A text \in {player.jersey, player.experience, player.height, player.weight,
                    player.hometown, player.status, player.position} : NonEmptyText(text)
    /\ player.jersey = TextOrDash(TextOf(Prop(entry, "jersey")))
    /\ player.experience = TextOrDash(TextOf(Prop(Prop(entry, "experience"), "displayValue")))
    /\ player.height = TextOrDash(TextOf(Prop(entry, "displayHeight")))
    /\ player.weight = TextOrDash(TextOf(Prop(entry, "displayWeight")))
    /\ player.position =
          TextOrDash(FirstText(TextOf(Prop(Prop(entry, "position"), "displayName")),
                               TextOf(Prop(Prop(entry, "position"), "abbreviation"))))
    /\ player.status =
          TextOrDash(FirstText(TextOf(Prop(Prop(entry, "status"), "name")),
                               TextOf(Prop(Prop(entry, "status"), "type"))))
    /\ player.hometown =
          JoinedHometown(TextOf(Prop(Prop(entry, "birthPlace"), "city")),
                         StateOrCountryOf(entry))

\* C3: in every Player of mapPlayersFromPayload jersey, experience, height,
\* weight, hometown, status and position are non-empty strings, never null:
\* the trimmed source value when that is a non-blank string (for position the
\* position's displayName or else abbreviation, for status its name or else
\* type), the dash otherwise; hometown is city and state-or-country joined by
\* ", ", one of them alone, or the dash when there is neither.
C3_DashDefaults ==
    (ParseDone /\ ~prOut.mapped.threw) =>
        /\ Len(prOut.mapped.players) = Len(ValidEntries)
        /\ \A i \in 1..Len(prOut.mapped.players) :
              DashDefaults(prOut.mapped.players[i], ValidEntries[i])

\* One player with a blank jersey and a country alone, one with every source.
C3_Witness ==
    /\ ParseDone
    /\ ~prOut.mapped.threw
    /\ \E i, j \in 1..Len(prOut.mapped.players) :
          /\ prOut.mapped.players[i].jersey = Dash
          /\ prOut.mapped.players[i].height = Dash
          /\ prOut.mapped.players[i].position = <<"x">>
          /\ prOut.mapped.players[i].hometown = <<"q">>
          /\ prOut.mapped.players[j].jersey = <<"1", "2">>
          /\ prOut.mapped.players[j].status = <<"A">>
          /\ prOut.mapped.players[j].hometown = <<"a", ",", " ", "b">>

-----------------------------------------------------------------------------
(* parseTeamRecord on payloads whose team carries record items *)

MaxItems == 3

\* { name, value } of a stats array
StatEntry(name, value) == JObject([name |-> JString(name), value |-> value])

Wins == <<"w", "i", "n", "s">>
Losses == <<"l", "o", "s", "s", "e", "s">>

RecordItems ==
    { JObject([type |-> JString(Total), summary |-> JString(<<" ", "7", "-", "5", " ">>),
               stats |-> JArray(<<StatEntry(Wins, JNumber(7)), StatEntry(Losses, JNumber(5))>>)]),
      JObject([type |-> JString(Total), summary |-> JString(<<" ">>)]),
      JObject([description |-> JString(OverallRecord), summary |-> JString(<<"2", "-", "1">>),
               stats |-> JArray(<<StatEntry(Wins, JNumber(2)),
                                  StatEntry(<<"t", "i", "e", "s">>, JString(<<"0">>)),
                                  JNull,
                                  StatEntry(<<"x">>, JNumber(4)),
                                  StatEntry(Wins, JNumber(3))>>)]),
      JObject([type |-> JString(Home), summary |-> JString(<<"0", "-", "0">>),
               stats |-> JArray(<<StatEntry(Wins, JNumber(9))>>)]),
      JObject([type |-> JString(Total), summary |-> JNumber(1),
               stats |-> JArray(<<StatEntry(Wins, JNull)>>)]),
      JObject([type |-> JString(Total), summary |-> JString(<<"1", "-", "1">>),
               stats |-> JEmptyObject]),
      JNull }

RecordSummaries == {JUndefined, JString(<<" ", "1", "-", "0">>), JString(<<" ">>)}

\* { team: { recordSummary, record: { items } } }
RecordPayload(recordSummary, items) ==
    JObject([team |-> JObject([recordSummary |-> recordSummary,
                               record |-> JObject([items |-> JArray(items)])])])

InitRecord ==
    /\ \E recordSummary \in RecordSummaries, items \in SeqsUpTo(RecordItems, MaxItems) :
          callIn = [recordSummary |-> recordSummary, items |-> items]
    /\ callOut = Idle
    /\ cmpIn = Idle /\ cmpOut = Idle
    /\ fsIn = Idle /\ fsOut = Idle
    /\ neIn = Idle /\ neOut = Idle
    /\ prIn = Idle /\ prOut = Idle

ParseRecord ==
    /\ callOut = Idle
    /\ callOut' = [pc |-> "done",
                   record |-> parseTeamRecord(RecordPayload(callIn.recordSummary, callIn.items))]
    /\ UNCHANGED <<callIn, cmpIn, cmpOut, fsIn, fsOut, neIn, neOut, prIn, prOut>>

NextRecord == ParseRecord

SpecRecord == InitRecord /\ [][NextRecord]_vars

RecordDone == callOut # Idle

\* The item is an object of type "total" or of description "Overall Record".
Matches(item) ==
    /\ item.t = "object"
    /\ \/ Prop(item, "type") = JString(Total)
       \/ Prop(item, "description") = JString(OverallRecord)

\* i is the place of the first matching item.
IsFirstMatch(items, i) ==
    /\ i \in 1..Len(items)
    /\ Matches(items[i])
    /\ \A j \in 1..(i - 1) : ~Matches(items[j])

\* The trimmed team.recordSummary, or null.
TeamSummary == TextOf(callIn.recordSummary)

\* C11: parseTeamRecord uses only the first item of team.record.items whose
\* type is "total" or whose description is "Overall Record": the result is the
\* one of the items cut after that match, and when that match has no summary
\* text and yields no stats the summary stays the trimmed team.recordSummary
\* (or null) and the stats stay null, whatever the later items hold.
C11_OnlyFirstMatch ==
    RecordDone =>
        \A i \in 1..Len(callIn.items) :
            IsFirstMatch(callIn.items, i) =>
                /\ callOut.record =
                      parseTeamRecord(RecordPayload(callIn.recordSummary,
                                                    SubSeq(callIn.items, 1, i)))
                /\ callOut.record.summary =
                      FirstText(TextOf(Prop(callIn.items[i], "summary")), TeamSummary)
                /\ (TextOf(Prop(callIn.items[i], "summary")) = Null
                    /\ Prop(callIn.items[i], "stats").t # "array")
                   => (callOut.record.summary = TeamSummary
                       /\ ~callOut.record.stats.present)

\* A first match without summary or stats, before a match that has both.
C11_Witness ==
    /\ RecordDone
    /\ Len(callIn.items) = 2
    /\ IsFirstMatch(callIn.items, 1)
    /\ TextOf(Prop(callIn.items[1], "summary")) = Null
    /\ Matches(callIn.items[2])
    /\ Prop(callIn.items[2], "stats").t = "array"
    /\ callIn.recordSummary = JString(<<" ", "1", "-", "0">>)
    /\ callOut.record.summary = <<"1", "-", "0">>
    /\ ~callOut.record.stats.present

\* Entry k of the stats array carries the name of the key and a number.
CarriesStat(stats, k, key) ==
    /\ stats[k].t = "object"
    /\ Prop(stats[k], "name") = JString(StatName(key))
    /\ Prop(stats[k], "value").t = "number"

\* The field of the key is the number of the last entry that carries its name,
\* null when no entry does.
FieldFromEntries(field, stats, key) ==
    /\ \A k \in 1..Len(stats) :
          (CarriesStat(stats, k, key)
           /\ \A later \in (k + 1)..Len(stats) : ~CarriesStat(stats, later, key))
          => field = Num(Prop(stats[k], "value").n)
    /\ (\A k \in 1..Len(stats) : ~CarriesStat(stats, k, key)) => field = NoNum

\* C12: when the selected item has a non-blank summary and a stats array of
\* {name, value} entries, parseTeamRecord yields the summary trimmed and stats
\* in which each of the nine fields holds the number of the entry carrying the
\* field's name, and null when there is no such entry.
C12_SummaryAndStatsOfItem ==
    RecordDone =>
        \A i \in 1..Len(callIn.items) :
            (/\ IsFirstMatch(callIn.items, i)
             /\ TextOf(Prop(callIn.items[i], "summary")) # Null
             /\ Prop(callIn.items[i], "stats").t = "array")
            => /\ callOut.record.summary = TextOf(Prop(callIn.items[i], "summary"))
               /\ \A key \in StatKeys :
                     FieldFromEntries(callOut.record.stats.stats[key],
                                      Prop(callIn.items[i], "stats").a, key)
               /\ callOut.record.stats.present
                     <=> \E key \in StatKeys : callOut.record.stats.stats[key].ok

\* Summary "7-5" with wins 7 and losses 5.
C12_Witness ==
    /\ RecordDone
    /\ Len(callIn.items) >= 1
    /\ IsFirstMatch(callIn.items, 1)
    /\ callOut.record.summary = <<"7", "-", "5">>
    /\ callOut.record.stats.present
    /\ callOut.record.stats.stats =
          [key \in StatKeys |-> IF key = "wins" THEN Num(7)
                                ELSE IF key = "losses" THEN Num(5) ELSE NoNum]

-----------------------------------------------------------------------------
(* The two stats normalizers on the same assignment of numbers to stat      *)
(* names, and the flat one again on its own result read back from the cache *)

MaxStatKeys == 3

\* The keys given a value: the first MaxStatKeys of RECORD_STAT_KEYS.
VariedKeys == {RECORD_STAT_KEYS[i] : i \in 1..MaxStatKeys}

\* No value, numbers (zero among them), and values that are not numbers.
StatValues == {JUndefined, JNumber(0), JNumber(7), JString(<<"7">>), JNull}

Assigned(values) == {key \in VariedKeys : values[key].t # "undefined"}

\* { wins: ..., losses: ..., x: 4 }: the flat object of the cache.
FlatStats(values) ==
    JObject([key \in Assigned(values) \cup {"x"} |->
                IF key = "x" THEN JNumber(4) ELSE values[key]])

\* The keys of the assignment in the order of RECORD_STAT_KEYS.
AssignedKeys(values) ==
    LET IsAssigned(key) == key \in Assigned(values)
    IN  SelectSeq(RECORD_STAT_KEYS, IsAssigned)

EntriesOf(values, keys) ==
    [i \in 1..Len(keys) |-> StatEntry(StatName(keys[i]), values[keys[i]])]

\* [{ name: "wins", value: ... }, ..., { name: "x", value: 4 }]: the stats
\* array of the live payload.
StatEntries(values) ==
    JArray(Append(EntriesOf(values, AssignedKeys(values)), StatEntry(<<"x">>, JNumber(4))))

\* Mutant: numbers are written to the cache as text.
StatsToJson_AsText(stats) ==
    IF stats.present
    THEN JObject([key \in StatKeys |->
                    IF stats.stats[key].ok THEN JString(NumberToString(stats.stats[key].val))
                    ELSE JNull])
    ELSE JNull

\* JSON.parse(JSON.stringify(stats)): a number is written in digits and read
\* back as that number, null stays null.
StatsToJson(stats) ==
    IF stats.present
    THEN JObject([key \in StatKeys |->
                    IF stats.stats[key].ok THEN JNumber(stats.stats[key].val) ELSE JNull])
    ELSE JNull

InitStats ==
    /\ \E values \in [VariedKeys -> StatValues] : callIn = [values |-> values]
    /\ callOut = Idle
    /\ cmpIn = Idle /\ cmpOut = Idle
    /\ fsIn = Idle /\ fsOut = Idle
    /\ neIn = Idle /\ neOut = Idle
    /\ prIn = Idle /\ prOut = Idle

NormalizeStats ==
    /\ callOut = Idle
    /\ callOut' = [pc |-> "done",
                   flat |-> normalizeRecordStats(FlatStats(callIn.values)),
                   extracted |-> extractRecordStatsFromPayload(StatEntries(callIn.values)),
                   again |-> normalizeRecordStats(
                                StatsToJson(normalizeRecordStats(FlatStats(callIn.values))))]
    /\ UNCHANGED <<callIn, cmpIn, cmpOut, fsIn, fsOut, neIn, neOut, prIn, prOut>>

NextStats == NormalizeStats

SpecStats == InitStats /\ [][NextStats]_vars

StatsDone == callOut # Idle

\* The number assigned to a key, null when the key has no number.
AssignedNumber(key) ==
    IF key \in VariedKeys /\ callIn.values[key].t = "number"
    THEN Num(callIn.values[key].n) ELSE NoNum

\* C13: for the same assignment of values to stat names normalizeRecordStats
\* (flat object) and extractRecordStatsFromPayload ({name, value} array)
\* return the same TeamRecordStats; both ignore a value that is not a number;
\* both return null, never a struct of nulls, when no field was populated.
C13_NormalizersAgree ==
    StatsDone =>
        /\ callOut.flat = callOut.extracted
        /\ \A key \in StatKeys : callOut.flat.stats[key] = AssignedNumber(key)
        /\ \A key \in StatKeys : callOut.extracted.stats[key] = AssignedNumber(key)
        /\ callOut.flat.present <=> \E key \in StatKeys : AssignedNumber(key).ok
        /\ callOut.extracted.present <=> \E key \in StatKeys : AssignedNumber(key).ok

\* One number (a zero), one value that is not a number, one name without value.
C13_Witness ==
    /\ StatsDone
    /\ callIn.values["wins"] = JNumber(0)
    /\ callIn.values["losses"] = JString(<<"7">>)
    /\ callIn.values["ties"] = JUndefined
    /\ callOut.flat.present
    /\ callOut.extracted.stats["wins"] = Num(0)
    /\ ~callOut.extracted.stats["losses"].ok

\* Nothing but values that are not numbers: both return null.
C13_WitnessNull ==
    /\ StatsDone
    /\ \A key \in VariedKeys : callIn.values[key].t \in {"string", "null"}
    /\ ~callOut.flat.present
    /\ ~callOut.extracted.present

\* C14: normalizeRecordStats is idempotent on its own results: a result that
\* is not null, written to the cache, read back and normalized again, is the
\* same struct field by field.
C14_Idempotent ==
    (StatsDone /\ callOut.flat.present) =>
        /\ callOut.again.present
        /\ \A key \in StatKeys : callOut.again.stats[key] = callOut.flat.stats[key]

\* A result holding a number and nulls, normalized again.
C14_Witness ==
    /\ StatsDone
    /\ callOut.flat.present
    /\ callOut.flat.stats["wins"] = Num(7)
    /\ ~callOut.flat.stats["losses"].ok
    /\ callOut.again.stats["wins"] = Num(7)

-----------------------------------------------------------------------------
(* parseHeight on display strings *)

MaxHeightLen == 4

HeightChars == {"7", "4", "6", "2", " ", "'", "x"}

InitHeight ==
    /\ \E height \in SeqsUpTo(HeightChars, MaxHeightLen) : callIn = [height |-> height]
    /\ callOut = Idle
    /\ cmpIn = Idle /\ cmpOut = Idle
    /\ fsIn = Idle /\ fsOut = Idle
    /\ neIn = Idle /\ neOut = Idle
    /\ prIn = Idle /\ prOut = Idle

ParseHeight ==
    /\ callOut = Idle
    /\ callOut' = [pc |-> "done", inches |-> parseHeight(callIn.height)]
    /\ UNCHANGED <<callIn, cmpIn, cmpOut, fsIn, fsOut, neIn, neOut, prIn, prOut>>

NextHeight == ParseHeight

SpecHeight == InitHeight /\ [][NextHeight]_vars

HeightDone == callOut # Idle

AllDigits(s, from, to) == to <= Len(s) /\ \A k \in from..to : IsDigit(s[k])
AllSpaces(s, from, to) == to <= Len(s) /\ \A k \in from..to : IsSpace(s[k])
NoDigitAt(s, k) == k > Len(s) \/ ~IsDigit(s[k])
NoSpaceAt(s, k) == k > Len(s) \/ ~IsSpace(s[k])

\* s is feet (its first f characters, digits), spaces up to a, an apostrophe
\* when one stands there, spaces up to b, and inches from b as far as i (digits,
\* none when i = b - 1), each run as long as it can be.
IsHeightSplit(s, f, a, b, i) ==
    /\ 1 <= f /\ AllDigits(s, 1, f) /\ NoDigitAt(s, f + 1)
    /\ f < a /\ AllSpaces(s, f + 1, a - 1) /\ NoSpaceAt(s, a)
    /\ \/ a <= Len(s) /\ s[a] = "'" /\ a < b /\ AllSpaces(s, a + 1, b - 1)
       \/ ~(a <= Len(s) /\ s[a] = "'") /\ a = b
    /\ NoSpaceAt(s, b)
    /\ b - 1 <= i /\ i <= Len(s) /\ AllDigits(s, b, i) /\ NoDigitAt(s, i + 1)

\* C15: parseHeight returns feet * 12 + inches, feet being the leading digit
\* run of the trimmed string and inches the digit run behind an optional
\* apostrophe and optional spaces (0 when there is none), and returns null when
\* the trimmed string does not start with a digit.
C15_FeetTimesTwelvePlusInches ==
    HeightDone =>
        /\ (Trim(callIn.height) = <<>> \/ ~IsDigit(Trim(callIn.height)[1]))
              => callOut.inches = NoNum
        /\ \A f, a, b \in 1..(Len(callIn.height) + 1), i \in 0..Len(callIn.height) :
              IsHeightSplit(Trim(callIn.height), f, a, b, i) =>
                  callOut.inches =
                      Num(DigitsValue(SubSeq(Trim(callIn.height), 1, f)) * 12
                          + DigitsValue(SubSeq(Trim(callIn.height), b, i)))
        /\ (Trim(callIn.height) # <<>> /\ IsDigit(Trim(callIn.height)[1]))
              => \E f, a, b \in 1..(Len(callIn.height) + 1), i \in 0..Len(callIn.height) :
                    IsHeightSplit(Trim(callIn.height), f, a, b, i)

\* "6' 2" gives 74.
C15_Witness ==
    /\ HeightDone
    /\ callIn.height = <<"6", "'", " ", "2">>
    /\ callOut.inches = Num(74)

\* "" and "x6" give null.
C15_WitnessNull ==
    /\ HeightDone
    /\ callIn.height = <<"x", "6">>
    /\ callOut.inches = NoNum

\* C16: parseHeight of a string of digits alone, such as "74", returns that
\* number itself as the total inches (74).
C16_DigitsAloneAreInches ==
    (HeightDone /\ callIn.height # <<>> /\ AllDigits(callIn.height, 1, Len(callIn.height)))
        => callOut.inches = Num(DigitsValue(callIn.height))

\* What the code does with "74".
C16_Divergence ==
    /\ HeightDone
    /\ callIn.height = <<"7", "4">>
    /\ callOut.inches = Num(888)

-----------------------------------------------------------------------------
(* The order of the players parseRosterPayload returns *)

HasJerseyNumber(player) == ParseInt(player.jersey).ok

\* player comes before later in an order by jersey number, the players without
\* a number last and by name, letter case ignored.
InJerseyOrder(player, later) ==
    /\ (HasJerseyNumber(player) /\ HasJerseyNumber(later))
          => ParseInt(player.jersey).val <= ParseInt(later.jersey).val
    /\ ~(~HasJerseyNumber(player) /\ HasJerseyNumber(later))
    /\ (~HasJerseyNumber(player) /\ ~HasJerseyNumber(later))
          => LocaleCompareBase(player.displayName, later.displayName) <= 0

\* C17: the players returned by parseRosterPayload are in ascending order of
\* their parsed jersey number, every player whose jersey does not parse comes
\* after all players with a number, and the players without a number are in
\* the order of their displayName compared without regard to case; they are
\* the players mapPlayersFromPayload produced, each as often.
C17_OrderedByJersey ==
    (ParseDone /\ ~prOut.roster.threw) =>
        /\ \A i, j \in 1..Len(prOut.roster.players) :
              i < j => InJerseyOrder(prOut.roster.players[i], prOut.roster.players[j])
        /\ Len(prOut.roster.players) = Len(prOut.mapped.players)
        /\ \A i \in 1..Len(prOut.mapped.players) :
              Count(prOut.roster.players, prOut.mapped.players[i])
                  = Count(prOut.mapped.players, prOut.mapped.players[i])

\* A player without a number mapped before one with a number, and moved behind.
C17_Witness ==
    /\ ParseDone
    /\ ~prOut.roster.threw
    /\ Len(prOut.mapped.players) = 2
    /\ ~HasJerseyNumber(prOut.mapped.players[1])
    /\ HasJerseyNumber(prOut.mapped.players[2])
    /\ prOut.roster.players = <<prOut.mapped.players[2], prOut.mapped.players[1]>>

\* Two players without a number, mapped against the order of their names.
C17_WitnessNames ==
    /\ ParseDone
    /\ ~prOut.roster.threw
    /\ Len(prOut.mapped.players) = 2
    /\ ~HasJerseyNumber(prOut.mapped.players[1])
    /\ ~HasJerseyNumber(prOut.mapped.players[2])
    /\ LocaleCompareBase(prOut.mapped.players[1].displayName,
                         prOut.mapped.players[2].displayName) > 0
    /\ prOut.roster.players = <<prOut.mapped.players[2], prOut.mapped.players[1]>>

-----------------------------------------------------------------------------
(* normalizePlayerInjuries on the injuries of an athlete *)

MaxInjuries == 2

InjuryEntries ==
    { JObject([id |-> JNumber(5), type |-> JString(<<"x">>),
               status |-> JString(<<" ", "a", " ">>),
               description |-> JString(<<"b">>), date |-> JString(<<"2">>)]),
      JObject([status |-> JObject([description |-> JString(<<" ">>),
                                   detail |-> JString(<<"q">>),
                                   type |-> JString(<<"a">>)])]),
      JObject([status |-> JObject([type |-> JString(<<"x">>), name |-> JString(<<"b">>)])]),
      JObject([status |-> JObject([name |-> JString(<<" ", "b">>)])]),
      JObject([detail |-> JString(<<"x">>)]),
      JObject([description |-> JString(<<>>), type |-> JNull, status |-> JNull,
               date |-> JNull, id |-> JNull]),
      JObject([status |-> JString(<<" ">>), description |-> JNumber(1)]),
      JObject([status |-> JNumber(3)]),
      JEmptyObject,
      JNull,
      JString(<<"a">>) }

InjuryValues ==
    { JArray(entries) : entries \in SeqsUpTo(InjuryEntries, MaxInjuries) }
    \cup { JUndefined, JNull, JEmptyObject, JString(<<"a">>) }

InitInjuries ==
    /\ \E value \in InjuryValues : callIn = [value |-> value]
    /\ callOut = Idle
    /\ cmpIn = Idle /\ cmpOut = Idle
    /\ fsIn = Idle /\ fsOut = Idle
    /\ neIn = Idle /\ neOut = Idle
    /\ prIn = Idle /\ prOut = Idle

NormalizeInjuries ==
    /\ callOut = Idle
    /\ callOut' = [pc |-> "done", injuries |-> normalizePlayerInjuries(callIn.value)]
    /\ UNCHANGED <<callIn, cmpIn, cmpOut, fsIn, fsOut, neIn, neOut, prIn, prOut>>

NextInjuries == NormalizeInjuries

SpecInjuries == InitInjuries /\ [][NextInjuries]_vars

InjuriesDone == callOut # Idle

\* The text of a string that is not blank or of a number, null otherwise.
TextOrNumberOf(value) ==
    IF value.t = "number" THEN NumberToString(value.n) ELSE TextOf(value)

\* The status of an entry: the trimmed string when the source is a string,
\* otherwise the first text of the nested description, detail, type, name.
ExpectedStatus(entry) ==
    IF Prop(entry, "status").t = "string" THEN TextOf(Prop(entry, "status"))
    ELSE FirstText(TextOf(Prop(Prop(entry, "status"), "description")),
             FirstText(TextOf(Prop(Prop(entry, "status"), "detail")),
                 FirstText(TextOf(Prop(Prop(entry, "status"), "type")),
                           TextOf(Prop(Prop(entry, "status"), "name")))))

ExpectedDescription(entry) ==
    FirstText(TextOf(Prop(entry, "description")), TextOf(Prop(entry, "detail")))

\* At least one of id, type, status, description, date resolves to a value.
HasInjuryField(entry) ==
    /\ entry.t = "object"
    /\ \/ TextOrNumberOf(Prop(entry, "id")) # Null
       \/ TextOrNumberOf(Prop(entry, "type")) # Null
       \/ ExpectedStatus(entry) # Null
       \/ ExpectedDescription(entry) # Null
       \/ TextOrNumberOf(Prop(entry, "date")) # Null

GivenInjuries == SelectSeq(ArrayItems(callIn.value), HasInjuryField)

\* C18: normalizePlayerInjuries returns, in source order, one PlayerInjury for
\* each entry of the array that has at least one of id, type, status,
\* description, date resolving to a non-blank value, and drops every other
\* entry; status is the trimmed string when the source status is a string, and
\* otherwise the first non-blank of the nested description, detail, type, name.
C18_InjuriesWithAValue ==
    InjuriesDone =>
        /\ Len(callOut.injuries) = Len(GivenInjuries)
        /\ \A i \in 1..Len(GivenInjuries) :
              /\ callOut.injuries[i].id = TextOrNumberOf(Prop(GivenInjuries[i], "id"))
              /\ callOut.injuries[i].type = TextOrNumberOf(Prop(GivenInjuries[i], "type"))
              /\ callOut.injuries[i].status = ExpectedStatus(GivenInjuries[i])
              /\ callOut.injuries[i].description = ExpectedDescription(GivenInjuries[i])
              /\ callOut.injuries[i].date = TextOrNumberOf(Prop(GivenInjuries[i], "date"))

\* The entry of empty fields is dropped, the one behind it kept with the
\* status of its nested object.
C18_Witness ==
    /\ InjuriesDone
    /\ Len(ArrayItems(callIn.value)) = 2
    /\ ArrayItems(callIn.value)[1] =
          JObject([description |-> JString(<<>>), type |-> JNull, status |-> JNull,
                   date |-> JNull, id |-> JNull])
    /\ Len(callOut.injuries) = 1
    /\ callOut.injuries[1].status = <<"q">>
    /\ callOut.injuries[1].id = Null

-----------------------------------------------------------------------------
(* The opponent parseTeamNextEvent takes *)

\* A competitor entry whose team id differs from TEAM_ID (or is missing).
IsOtherTeam(competitor) ==
    /\ IsObjectValue(competitor)
    /\ ~TeamIdOf(competitor).threw
    /\ TeamIdOf(competitor).s # TEAM_ID

IsFirstOtherTeam(competitors, k) ==
    /\ k \in 1..Len(competitors)
    /\ IsOtherTeam(competitors[k])
    /\ \A j \in 1..(k - 1) : ~IsOtherTeam(competitors[j])

\* The event of the same record with the competitors cut after the k-th.
EventCutAfter(k) ==
    parseTeamNextEvent(EventRecord(Prop(neIn.record, "id"), SubSeq(GivenCompetitors, 1, k)))

OpponentOf(competitor, event) ==
    /\ event.opponent =
          FirstText(TextOf(Prop(Prop(competitor, "team"), "displayName")),
              FirstText(TextOf(Prop(Prop(competitor, "team"), "nickname")),
                        TextOf(Prop(Prop(competitor, "team"), "location"))))
    /\ event.opponentAbbreviation = TextOf(Prop(Prop(competitor, "team"), "abbreviation"))
    /\ event.opponentRank = toNumberOrNull(Prop(Prop(competitor, "curatedRank"), "current"))

\* C19: parseTeamNextEvent takes as opponent the first competitor of the first
\* competition whose team id differs from TEAM_ID and stops there: the name is
\* the first non-blank of that team's displayName, nickname, location, the
\* abbreviation is that team's, and no later competitor changes opponent,
\* opponentAbbreviation or opponentRank.
C19_FirstOtherTeamIsOpponent ==
    (NextEventDone /\ neOut.event.present) =>
        /\ \A k \in 1..Len(GivenCompetitors) :
              IsFirstOtherTeam(GivenCompetitors, k) =>
                  /\ OpponentOf(GivenCompetitors[k], neOut.event)
                  /\ neOut.event.opponent = EventCutAfter(k).opponent
                  /\ neOut.event.opponentAbbreviation = EventCutAfter(k).opponentAbbreviation
                  /\ neOut.event.opponentRank = EventCutAfter(k).opponentRank
        /\ (\A k \in 1..Len(GivenCompetitors) : ~IsOtherTeam(GivenCompetitors[k]))
              => /\ neOut.event.opponent = Null
                 /\ neOut.event.opponentAbbreviation = Null
                 /\ neOut.event.opponentRank = NoNum

\* Our entry, an opponent named by its nickname, then another team with a
\* name, an abbreviation and a rank.
C19_Witness ==
    /\ NextEventDone
    /\ neOut.event.present
    /\ Len(GivenCompetitors) = 3
    /\ ~IsOtherTeam(GivenCompetitors[1])
    /\ IsFirstOtherTeam(GivenCompetitors, 2)
    /\ GivenCompetitors[3] = OtherCompetitor(<<"b">>, JString(Home))
    /\ neOut.event.opponent = <<"x">>
    /\ neOut.event.opponentAbbreviation = Null
    /\ neOut.event.opponentRank = NoNum

-----------------------------------------------------------------------------
(* normalizeTeamNextEvent and normalizeTeamMeta: the cached team meta *)

TrueText == <<"t", "r", "u", "e">>
FalseText == <<"f", "a", "l", "s", "e">>

\* record.isHome as a boolean, or as the text "true" or "false" in any case
NormalizedIsHome(isHome) ==
    IF isHome.t = "boolean" THEN Tri(isHome.n = 1)
    ELSE IF isHome.t = "string" /\ ToLowerCase(isHome.s) = TrueText THEN "true"
    ELSE IF isHome.t = "string" /\ ToLowerCase(isHome.s) = FalseText THEN "false"
    ELSE TriNull

TrimmedItems(items) == [i \in 1..Len(items) |-> TrimmedString(items[i])]

\* record.broadcasts.map(trim).filter(Boolean), [] when it is no array
NormalizedBroadcasts(broadcasts) == SelectSeq(TrimmedItems(ArrayItems(broadcasts)), Truthy)

\* The event of a cached record that has an id (lines 339-365).
CachedEvent(record, id) ==
    IF id = Null THEN NullEvent
    ELSE [threw |-> FALSE, present |-> TRUE,
          id |-> id,
          name |-> TrimmedString(Prop(record, "name")),
          shortName |-> TrimmedString(Prop(record, "shortName")),
          date |-> TrimmedString(Prop(record, "date")),
          opponent |-> TrimmedString(Prop(record, "opponent")),
          opponentAbbreviation |-> TrimmedString(Prop(record, "opponentAbbreviation")),
          opponentRank |-> toNumberOrNull(Prop(record, "opponentRank")),
          isHome |-> NormalizedIsHome(Prop(record, "isHome")),
          venue |-> TrimmedString(Prop(record, "venue")),
          venueCity |-> TrimmedString(Prop(record, "venueCity")),
          venueState |-> TrimmedString(Prop(record, "venueState")),
          venueCountry |-> TrimmedString(Prop(record, "venueCountry")),
          seasonText |-> TrimmedString(Prop(record, "seasonText")),
          weekText |-> TrimmedString(Prop(record, "weekText")),
          broadcasts |-> NormalizedBroadcasts(Prop(record, "broadcasts")),
          ticketsSummary |-> TrimmedString(Prop(record, "ticketsSummary")),
          ticketsStartingPrice |-> toNumberOrNull(Prop(record, "ticketsStartingPrice")),
          statusDetail |-> TrimmedString(Prop(record, "statusDetail")),
          statusShortDetail |-> TrimmedString(Prop(record, "statusShortDetail"))]

normalizeTeamNextEvent(value) ==
    IF ~IsObjectValue(value) THEN NullEvent
    ELSE CachedEvent(value, toTrimmedString(Prop(value, "id")))

\* A TeamMeta | null
NullMeta == [present |-> FALSE, meta |-> createEmptyTeamMeta]

normalizeTeamMeta(value) ==
    IF ~IsObjectValue(value) THEN NullMeta
    ELSE [present |-> TRUE,
          meta |-> MetaOf(value, normalizeTeamNextEvent(Prop(value, "nextEvent")))]

-----------------------------------------------------------------------------
(* The two TeamMeta normalizers: parseTeamMeta on the live payload,         *)
(* normalizeTeamMeta on the value read from the cache                       *)

CachedEvents ==
    { JUndefined, JNull, JEmptyObject,
      JObject([id |-> JString(<<" ">>), name |-> JString(<<"a">>)]),
      JObject([id |-> JString(<<"1">>), opponent |-> JString(<<" ", "b">>),
               opponentRank |-> JNumber(5), isHome |-> JBoolean(FALSE),
               broadcasts |-> JArray(<<JString(<<"a">>), JString(<<" ">>), JNumber(1),
                                       JString(<<"a">>)>>)]),
      JObject([id |-> JNumber(7), isHome |-> JString(<<"T", "r", "u", "e">>),
               broadcasts |-> JString(<<"a">>)]) }

CachedMetas ==
    { JObject([key \in {"rank", "displayName", "nextEvent"} |->
                 CASE key = "rank" -> rank
                   [] key = "displayName" -> displayName
                   [] key = "nextEvent" -> nextEvent]) :
          rank \in {JUndefined, JNumber(5), JString(<<"5">>)},
          displayName \in {JUndefined, JString(<<" ", "a", " ">>), JNumber(1)},
          nextEvent \in CachedEvents }
    \cup { JUndefined, JNull, JString(<<"a">>), JNumber(1), JBoolean(TRUE), JArray(<<>>) }

MetaPayloads ==
    { JObject([team |-> JObject(team)]) : team \in Teams }
    \cup { JNull, JString(<<"a">>), JEmptyObject, JObject([team |-> JNull]) }

InitMeta ==
    /\ \E cached \in CachedMetas, payload \in MetaPayloads :
          callIn = [cached |-> cached, payload |-> payload]
    /\ callOut = Idle
    /\ cmpIn = Idle /\ cmpOut = Idle
    /\ fsIn = Idle /\ fsOut = Idle
    /\ neIn = Idle /\ neOut = Idle
    /\ prIn = Idle /\ prOut = Idle

\* One call of each normalizer.
NormalizeMeta ==
    /\ callOut = Idle
    /\ callOut' = [pc |-> "done",
                   normalized |-> normalizeTeamMeta(callIn.cached),
                   parsed |-> parseTeamMeta(callIn.payload)]
    /\ UNCHANGED <<callIn, cmpIn, cmpOut, fsIn, fsOut, neIn, neOut, prIn, prOut>>

NextMeta == NormalizeMeta

SpecMeta == InitMeta /\ [][NextMeta]_vars

MetaDone == callOut # Idle

MetaFields ==
    {"rank", "standingSummary", "displayName", "shortDisplayName", "location",
     "nickname", "abbreviation", "color", "alternateColor", "nextEvent"}

\* C20: the TeamMeta normalizers always return a full TeamMeta struct whose
\* absent fields are null and never return null itself, for every input, one
\* that is not an object included: parseTeamMeta on the live payload and
\* normalizeTeamMeta on the cached value.
C20_AlwaysAFullTeamMeta ==
    MetaDone =>
        /\ ~callOut.parsed.threw
        /\ DOMAIN callOut.parsed.meta = MetaFields
        /\ callOut.normalized.present
        /\ DOMAIN callOut.normalized.meta = MetaFields

\* What parseTeamMeta does with a competitor whose team id is { "toString": 1 }.
C20_Divergence ==
    /\ MetaDone
    /\ callIn.payload =
          JObject([team |-> JObject([nextEvent |-> JArray(<<EventRecord(JString(<<"1">>),
              <<OurCompetitor(JObject([toString |-> JNumber(1)]), JString(Home))>>)>>)])])
    /\ callOut.parsed.threw

\* What normalizeTeamMeta does with a cached value that is not an object.
C20_DivergenceNull ==
    /\ MetaDone
    /\ callIn.cached = JNull
    /\ ~callOut.normalized.present

\* Apart from the exception and from cached values that are no objects, both
\* return the struct.
C20_StructOtherwise ==
    MetaDone =>
        /\ ~callOut.parsed.threw =>
              (~HasTeam(callIn.payload) => callOut.parsed.meta = createEmptyTeamMeta)
        /\ callOut.normalized.present <=> IsObjectValue(callIn.cached)
        /\ callIn.cached = JEmptyObject => callOut.normalized.meta = createEmptyTeamMeta

-----------------------------------------------------------------------------
(* useRoster: the effect of the hook, from mount to the settled request.    *)
(* callIn is the world outside the hook (what local storage held at mount,  *)
(* the decoded payload, the entry written back), callOut the hook: its      *)
(* state, the locals of the effect and the position of loadRoster.          *)

RequiredKeys ==
    {"id", "displayName", "jersey", "position", "experience", "height", "weight", "hometown"}

\* Mutant: hometown is not required.
isValidPlayerRecord_NoHometown(value) ==
    /\ IsObjectValue(value)
    /\ \A key \in RequiredKeys \ {"hometown"} : Prop(value, key).t = "string"

isValidPlayerRecord(value) ==
    /\ IsObjectValue(value)
    /\ \A key \in RequiredKeys : Prop(value, key).t = "string"

ErrorMessage == <<"Unable to load the roster right now. Please try again later.">>
NoticeMessage == <<"Showing the last saved roster. Live data is currently unavailable.">>

\* The useState initial values and the locals of the effect.
InitialHook ==
    [pc |-> "mounted",
     players |-> <<>>, recordSummary |-> Null, recordStats |-> NullStats,
     teamMeta |-> NullMeta, loading |-> TRUE, error |-> Null, notice |-> Null,
     lastUpdated |-> NoNum,
     cancelled |-> FALSE,
     cachedPlayers |-> <<>>, cachedTimestamp |-> NoNum, cachedTeamMeta |-> NullMeta,
     setterCalls |-> 0]

NoEntry == [written |-> FALSE]

\* parsed.players.filter(isValidPlayerRecord), [] when players is no array
StoredPlayers(parsed) == SelectSeq(ArrayItems(Prop(parsed, "players")), isValidPlayerRecord)

\* typeof recordSummary === 'string' ? recordSummary.trim() : '', '' giving null
CachedSummary(recordSummary) ==
    IF recordSummary.t = "string" THEN EmptyToNull(Trim(recordSummary.s)) ELSE Null

\* cachedTimestamp ? cachedTimestamp : null
TimestampOrNull(cachedTimestamp) ==
    IF cachedTimestamp.ok /\ cachedTimestamp.val # 0 THEN cachedTimestamp ELSE NoNum

\* part_005 61-70: the locals of the effect
CachedLocals(h, parsed) ==
    [h EXCEPT !.cachedPlayers = StoredPlayers(parsed),
              !.cachedTimestamp = toNumberOrNull(Prop(parsed, "updatedAt")),
              !.cachedTeamMeta = normalizeTeamMeta(Prop(parsed, "teamMeta"))]

\* part_005 72-88: the state set from the cache
HydratedState(h, parsed) ==
    IF h.cancelled THEN h
    ELSE [h EXCEPT !.recordSummary = CachedSummary(Prop(parsed, "recordSummary")),
                   !.recordStats = normalizeRecordStats(Prop(parsed, "recordStats")),
                   !.teamMeta = h.cachedTeamMeta,
                   !.players = h.cachedPlayers,
                   !.error = Null,
                   !.loading = FALSE,
                   !.notice = Null,
                   !.lastUpdated = TimestampOrNull(h.cachedTimestamp),
                   !.setterCalls = @ + 8]

\* raw is what getItem gives: nothing, the empty text, an exception, a text
\* JSON.parse rejects, or a text it decodes to raw.value.  Reading
\* parsed.players of a decoded null throws; every exception is caught.
hydrateFromCache(h, raw) ==
    IF raw.kind # "json" THEN h
    ELSE IF raw.value.t = "null" THEN h
    ELSE IF StoredPlayers(raw.value) = <<>> THEN h
    ELSE HydratedState(CachedLocals(h, raw.value), raw.value)

\* Mutant: loading is set whether or not the cache gave players.
LoadRosterStart_AlwaysLoading(h) ==
    IF h.cancelled THEN [h EXCEPT !.pc = "settled"]
    ELSE [h EXCEPT !.error = Null, !.notice = Null, !.loading = TRUE,
                   !.setterCalls = @ + 3, !.pc = "fetching"]

\* part_005 95-107: loadRoster up to the await of fetch
LoadRosterStart(h) ==
    IF h.cancelled THEN [h EXCEPT !.pc = "settled"]
    ELSE [h EXCEPT !.error = Null,
                   !.notice = Null,
                   !.loading = IF h.cachedPlayers = <<>> THEN TRUE ELSE @,
                   !.setterCalls = @ + (IF h.cachedPlayers = <<>> THEN 3 ELSE 2),
                   !.pc = "fetching"]

\* Mutant: the error state whether or not there are cached players.
FailedState_AlwaysError(h) ==
    [h EXCEPT !.error = ErrorMessage, !.recordSummary = Null, !.recordStats = NullStats,
              !.teamMeta = NullMeta, !.lastUpdated = NoNum, !.setterCalls = @ + 5]

\* part_005 156-174
FailedState(h) ==
    IF h.cachedPlayers = <<>>
    THEN [h EXCEPT !.error = ErrorMessage, !.recordSummary = Null, !.recordStats = NullStats,
                   !.teamMeta = NullMeta, !.lastUpdated = NoNum, !.setterCalls = @ + 5]
    ELSE [h EXCEPT !.notice = NoticeMessage,
                   !.lastUpdated = TimestampOrNull(h.cachedTimestamp),
                   !.teamMeta = IF h.cachedTeamMeta.present THEN h.cachedTeamMeta ELSE @,
                   !.setterCalls = @ + (IF h.cachedTeamMeta.present THEN 3 ELSE 2)]

\* Mutant: the catch block does not look at cancelled.
Caught_IgnoreCancelled(h) == FailedState(h)

\* part_005 145-174: the catch block.  An AbortError comes only from the
\* abort of the cleanup, which sets cancelled first.
Caught(h) == IF h.cancelled THEN h ELSE FailedState(h)

\* Mutant: loading is left as it is.
Finally_KeepLoading(h) == [h EXCEPT !.pc = "settled"]

\* part_005 175-179: the finally block
Finally(h) ==
    IF h.cancelled THEN [h EXCEPT !.pc = "settled"]
    ELSE [h EXCEPT !.loading = FALSE, !.setterCalls = @ + 1, !.pc = "settled"]

\* Mutant: the cached summary is the one the team carries, not the parsed one.
PayloadToStore_OtherSummary(roster, timestamp) ==
    [written |-> TRUE, players |-> roster.players, updatedAt |-> Num(timestamp),
     recordSummary |-> Null, recordStats |-> roster.teamRecord.stats,
     teamMeta |-> [present |-> TRUE, meta |-> roster.teamMeta]]

\* part_005 133-139
PayloadToStore(roster, timestamp) ==
    [written |-> TRUE, players |-> roster.players, updatedAt |-> Num(timestamp),
     recordSummary |-> roster.teamRecord.summary, recordStats |-> roster.teamRecord.stats,
     teamMeta |-> [present |-> TRUE, meta |-> roster.teamMeta]]

\* part_005 120-129
SucceededState(h, roster, timestamp) ==
    [h EXCEPT !.cachedPlayers = roster.players,
              !.cachedTimestamp = Num(timestamp),
              !.recordSummary = roster.teamRecord.summary,
              !.recordStats = roster.teamRecord.stats,
              !.teamMeta = [present |-> TRUE, meta |-> roster.teamMeta],
              !.players = roster.players,
              !.lastUpdated = Num(timestamp),
              !.loading = FALSE,
              !.setterCalls = @ + 6]

\* Mutant: the decoded payload is put into state after the cleanup too.
Parsed_IgnoreCancelled(h, roster, timestamp) ==
    IF roster.threw THEN Caught(h) ELSE SucceededState(h, roster, timestamp)

\* part_005 114-129: the parse of the decoded payload and what follows it
Parsed(h, roster, timestamp) ==
    IF roster.threw THEN Caught(h)
    ELSE IF h.cancelled THEN h
    ELSE SucceededState(h, roster, timestamp)

\* setItem is reached on the success path of a hook that is still mounted
Stores(h, roster) == ~roster.threw /\ ~h.cancelled

MaxCached == 2

CachedPlayer(id, displayName) ==
    JObject([id |-> JString(id), displayName |-> JString(displayName),
             jersey |-> JString(<<"1">>), position |-> JString(<<"Q", "B">>),
             experience |-> JString(<<"S", "r">>), height |-> JString(<<"6", "'", "2">>),
             weight |-> JString(<<"2", "0", "0">>), hometown |-> JString(EmDash),
             injuries |-> JArray(<<>>)])

CachedEntries ==
    { CachedPlayer(<<"7">>, <<"b">>),
      \* a jersey that is a number
      JObject([key \in RequiredKeys |->
                  IF key = "jersey" THEN JNumber(7) ELSE JString(<<"a">>)]),
      \* the eight strings and no injuries
      JObject([key \in RequiredKeys |-> JString(<<"a">>)]),
      \* no hometown
      JObject([key \in RequiredKeys \ {"hometown"} |-> JString(<<"a">>)]),
      JNull }

CachedRoster(players, updatedAt, recordSummary, recordStats, teamMeta) ==
    JObject([players |-> players, updatedAt |-> updatedAt, recordSummary |-> recordSummary,
             recordStats |-> recordStats, teamMeta |-> teamMeta])

CachedRest ==
    { <<JNumber(5), JString(<<" ", "1", "-", "0">>), JObject([wins |-> JNumber(1)]),
        JObject([rank |-> JNumber(5), displayName |-> JString(<<"a">>),
                 nextEvent |-> JObject([id |-> JString(<<"1">>),
                                        isHome |-> JBoolean(TRUE)])])>>,
      <<JNumber(0), JString(<<" ">>), JEmptyObject, JNull>>,
      <<JString(<<"5">>), JNumber(1), JNull, JEmptyObject>> }

RawCaches ==
    { [kind |-> "json",
       value |-> CachedRoster(JArray(players), rest[1], rest[2], rest[3], rest[4])] :
          players \in SeqsUpTo(CachedEntries, MaxCached), rest \in CachedRest }
    \cup { [kind |-> "json", value |-> value] :
              value \in { JNull, JNumber(1), JArray(<<CachedPlayer(<<"7">>, <<"b">>)>>),
                          JEmptyObject,
                          JObject([players |-> CachedPlayer(<<"7">>, <<"b">>)]) } }
    \cup { [kind |-> kind, value |-> JUndefined] : kind \in {"absent", "empty", "blocked", "text"} }

LiveAthletes ==
    { <<>>,
      <<JObject([id |-> JString(<<"8">>), displayName |-> JString(<<"c">>)]),
        JObject([id |-> JNumber(9), displayName |-> JString(<<"a">>),
                 jersey |-> JString(<<"3">>),
                 injuries |-> JArray(<<JObject([status |-> JString(<<"q">>)])>>)])>> }

LivePayloads ==
    { JObject([team |-> TeamWith(team, JArray(athletes))]) :
          team \in Teams, athletes \in LiveAthletes }
    \cup { JNull }

\* Date.now()
Timestamps == {8, 9}

InitRoster ==
    /\ \E raw \in RawCaches : callIn = [raw |-> raw, payload |-> JUndefined, stored |-> NoEntry]
    /\ callOut = InitialHook
    /\ cmpIn = Idle /\ cmpOut = Idle
    /\ fsIn = Idle /\ fsOut = Idle
    /\ neIn = Idle /\ neOut = Idle
    /\ prIn = Idle /\ prOut = Idle

Others == <<cmpIn, cmpOut, fsIn, fsOut, neIn, neOut, prIn, prOut>>

\* part_005 182: hydrateFromCache()
HydrateFromCache ==
    /\ callOut.pc = "mounted"
    /\ callOut' = [hydrateFromCache(callOut, callIn.raw) EXCEPT !.pc = "hydrated"]
    /\ UNCHANGED <<callIn, Others>>

\* part_005 183: loadRoster(), up to its first await
LoadRoster ==
    /\ callOut.pc = "hydrated"
    /\ callOut' = LoadRosterStart(callOut)
    /\ UNCHANGED <<callIn, Others>>

\* fetch rejects: a network error, or the AbortError of the cleanup
FetchRejects ==
    /\ callOut.pc = "fetching"
    /\ callOut' = Finally(Caught(callOut))
    /\ UNCHANGED <<callIn, Others>>

\* fetch resolves with a status that is not 2xx: line 110 throws
FetchRespondsNotOk ==
    /\ callOut.pc = "fetching"
    /\ callOut' = Finally(Caught(callOut))
    /\ UNCHANGED <<callIn, Others>>

\* fetch resolves with a 2xx status: loadRoster awaits response.json()
FetchRespondsOk ==
    /\ callOut.pc = "fetching"
    /\ callOut' = [callOut EXCEPT !.pc = "decoding"]
    /\ UNCHANGED <<callIn, Others>>

\* response.json() rejects
JsonFails ==
    /\ callOut.pc = "decoding"
    /\ callOut' = Finally(Caught(callOut))
    /\ UNCHANGED <<callIn, Others>>

\* response.json() resolves: part_005 113-144 and the finally block.  setItem
\* stores the entry or throws (quota, storage disabled), which is caught.
JsonDecodes ==
    /\ callOut.pc = "decoding"
    /\ \E payload \in LivePayloads, timestamp \in Timestamps, setItemThrows \in BOOLEAN :
          /\ callOut' = Finally(Parsed(callOut, parseRosterPayload(payload), timestamp))
          /\ callIn' = [callIn EXCEPT
                 !.payload = payload,
                 !.stored = IF Stores(callOut, parseRosterPayload(payload)) /\ ~setItemThrows
                            THEN PayloadToStore(parseRosterPayload(payload), timestamp)
                            ELSE @]
    /\ UNCHANGED Others

\* part_005 185-188: the cleanup of the effect
Unmount ==
    /\ callOut.pc \in {"fetching", "decoding", "settled"}
    /\ ~callOut.cancelled
    /\ callOut' = [callOut EXCEPT !.cancelled = TRUE]
    /\ UNCHANGED <<callIn, Others>>

NextRoster ==
    \/ HydrateFromCache
    \/ LoadRoster
    \/ FetchRejects
    \/ FetchRespondsNotOk
    \/ FetchRespondsOk
    \/ JsonFails
    \/ JsonDecodes
    \/ Unmount

SpecRoster == InitRoster /\ [][NextRoster]_vars

-----------------------------------------------------------------------------
(* Reading the cache *)

\* The state fields the hook returns.
Exposed(h) ==
    [players |-> h.players, recordSummary |-> h.recordSummary, recordStats |-> h.recordStats,
     teamMeta |-> h.teamMeta, loading |-> h.loading, error |-> h.error, notice |-> h.notice,
     lastUpdated |-> h.lastUpdated]

\* The entries of the decoded cache, none when it has no players array.
CachedList == ArrayItems(Prop(callIn.raw.value, "players"))

HasTheEightStrings(entry) ==
    /\ entry.t = "object"
    /\ \A key \in RequiredKeys : key \in DOMAIN entry.f /\ entry.f[key].t = "string"

\* The cache holds a JSON object with a players array that has a valid entry.
UsableCache ==
    /\ callIn.raw.kind = "json"
    /\ callIn.raw.value.t = "object"
    /\ \E i \in 1..Len(CachedList) : HasTheEightStrings(CachedList[i])

\* loadRoster has been called and waits for fetch, the hook still mounted.
FetchIssued == callOut.pc = "fetching" /\ ~callOut.cancelled

\* C21: on reading the cache useRoster keeps exactly the cached entries whose
\* id, displayName, jersey, position, experience, height, weight and hometown
\* are all strings, in their order; a cache that is absent, not valid JSON, not
\* of the expected shape or without a valid player is no cached data: no state
\* is set from it, no error is surfaced and the fetch proceeds with loading
\* still true.
C21_ValidEntriesOrNoCachedData ==
    /\ (callOut.pc = "hydrated" /\ UsableCache) =>
          /\ callOut.players = SelectSeq(CachedList, HasTheEightStrings)
          /\ callOut.cachedPlayers = callOut.players
    /\ (callOut.pc = "hydrated" /\ ~UsableCache) =>
          /\ callOut.setterCalls = 0
          /\ Exposed(callOut) = Exposed(InitialHook)
          /\ callOut.cachedPlayers = <<>>
    /\ (FetchIssued /\ ~UsableCache) =>
          /\ Exposed(callOut) = Exposed(InitialHook)
          /\ callOut.loading
          /\ callOut.error = Null

\* A cache of a valid entry followed by one whose jersey is a number.
C21_Witness ==
    /\ callOut.pc = "hydrated"
    /\ Len(CachedList) = 2
    /\ HasTheEightStrings(CachedList[1])
    /\ Prop(CachedList[2], "jersey").t = "number"
    /\ callOut.players = <<CachedList[1]>>

\* A cache that JSON.parse rejects, the fetch issued.
C21_WitnessCorrupt ==
    /\ FetchIssued
    /\ callIn.raw.kind = "text"
    /\ callOut.loading
    /\ callOut.players = <<>>

-----------------------------------------------------------------------------
(* A failed load *)

\* The request has settled without a parsed payload: fetch rejected, the
\* status was not 2xx, the body did not decode, or the parser threw.
LoadFailed ==
    /\ callOut.pc = "settled"
    /\ callIn.payload = JUndefined \/ parseRosterPayload(callIn.payload).threw

\* What a usable cache hydrates.
HydratedSnapshot ==
    [players |-> SelectSeq(CachedList, HasTheEightStrings),
     recordSummary |-> CachedSummary(Prop(callIn.raw.value, "recordSummary")),
     recordStats |-> normalizeRecordStats(Prop(callIn.raw.value, "recordStats")),
     teamMeta |-> normalizeTeamMeta(Prop(callIn.raw.value, "teamMeta"))]

Snapshot(h) ==
    [players |-> h.players, recordSummary |-> h.recordSummary, recordStats |-> h.recordStats,
     teamMeta |-> h.teamMeta]

C22_WitnessError ==
    /\ LoadFailed
    /\ ~callOut.cancelled
    /\ callIn.raw.kind = "absent"
    /\ callOut.error = ErrorMessage

-----------------------------------------------------------------------------
(* One snapshot *)

ClearedSnapshot ==
    [players |-> <<>>, recordSummary |-> Null, recordStats |-> NullStats, teamMeta |-> NullMeta]

\* The siblings one parseRosterPayload call returns.
LiveSnapshot(roster) ==
    [players |-> roster.players, recordSummary |-> roster.teamRecord.summary,
     recordStats |-> roster.teamRecord.stats,
     teamMeta |-> [present |-> TRUE, meta |-> roster.teamMeta]]

PayloadParsed == callIn.payload # JUndefined /\ ~parseRosterPayload(callIn.payload).threw

StoredSnapshot ==
    [players |-> callIn.stored.players, recordSummary |-> callIn.stored.recordSummary,
     recordStats |-> callIn.stored.recordStats, teamMeta |-> callIn.stored.teamMeta]

\* C23: players, recordSummary/recordStats and teamMeta of useRoster always
\* belong to one snapshot: they are all at their initial or cleared values, all
\* taken from the same cache entry, or all produced by the same
\* parseRosterPayload call; and the cache entry written after a successful
\* fetch holds exactly the values that were put into state.
C23_OneSnapshot ==
    /\ \/ Snapshot(callOut) = ClearedSnapshot
       \/ UsableCache /\ Snapshot(callOut) = HydratedSnapshot
       \/ PayloadParsed /\ Snapshot(callOut) = LiveSnapshot(parseRosterPayload(callIn.payload))
    /\ callIn.stored.written =>
          /\ PayloadParsed
          /\ StoredSnapshot = Snapshot(callOut)
          /\ StoredSnapshot = LiveSnapshot(parseRosterPayload(callIn.payload))
          /\ callIn.stored.updatedAt = callOut.lastUpdated

\* A cache was hydrated, then a payload with two athletes, a record and a team
\* meta replaced it and was written back.
C23_Witness ==
    /\ callOut.pc = "settled"
    /\ UsableCache
    /\ callIn.stored.written
    /\ Len(callOut.players) = 2
    /\ callOut.recordSummary = <<"2", "-", "1">>
    /\ callOut.recordStats.present
    /\ callOut.teamMeta.meta.nextEvent.present
    /\ Snapshot(callOut) # HydratedSnapshot

-----------------------------------------------------------------------------
(* After the cleanup *)

\* C24: once the cleanup of the effect has run (cancelled set, the request
\* aborted) no state setter is called and nothing is written to local storage,
\* whichever point the loadRoster in flight had reached: before the response,
\* between the response and its JSON decode, or on a rejected fetch.
C24_NothingAfterCleanup ==
    [][callOut.cancelled =>
          /\ callOut'.setterCalls = callOut.setterCalls
          /\ Exposed(callOut') = Exposed(callOut)
          /\ callIn'.stored = callIn.stored]_vars

\* The cleanup ran while the body was being decoded; the body then decoded to
\* a payload with players, and the hook still shows its initial state.
C24_Witness ==
    /\ callOut.cancelled
    /\ callOut.pc = "settled"
    /\ PayloadParsed
    /\ parseRosterPayload(callIn.payload).players # <<>>
    /\ ~callIn.stored.written
    /\ Exposed(callOut) = Exposed(InitialHook)

\* The cleanup ran, then the fetch was rejected after a cache was hydrated.
C24_WitnessRejected ==
    /\ callOut.cancelled
    /\ callOut.pc = "settled"
    /\ callIn.payload = JUndefined
    /\ UsableCache
    /\ callOut.notice = Null
    /\ callOut.error = Null

-----------------------------------------------------------------------------
(* The players the hook exposes *)

\* A player accepted from the cache is the decoded JSON value itself.
IsCachedValue(player) == "t" \in DOMAIN player

\* id and displayName are non-empty strings and injuries is a list.
ParserShaped(player) ==
    IF IsCachedValue(player)
    THEN /\ Prop(player, "id").t = "string" /\ Prop(player, "id").s # <<>>
         /\ Prop(player, "displayName").t = "string" /\ Prop(player, "displayName").s # <<>>
         /\ Prop(player, "injuries").t = "array"
    ELSE /\ player.id \notin {Null, <<>>}
         /\ player.displayName \notin {Null, <<>>}
         /\ DOMAIN player.injuries = 1..Len(player.injuries)

\* C25: every player exposed by useRoster, parsed from the live payload or
\* accepted from the cache by isValidPlayerRecord, is a record the parser could
\* have produced: id and displayName are non-empty strings and injuries is a
\* list, so that player.injuries.length can be read for any selectable player.
C25_ExposedPlayersAreParserShaped ==
    \A i \in 1..Len(callOut.players) : ParserShaped(callOut.players[i])

\* The cached entry of eight strings "a" and no injuries is exposed.
C25_Divergence ==
    /\ callOut.pc = "hydrated"
    /\ Len(callOut.players) = 1
    /\ callOut.players[1] = JObject([key \in RequiredKeys |-> JString(<<"a">>)])
    /\ Prop(callOut.players[1], "injuries") = JUndefined

\* The players parsed from a live payload do have the shape.
C25_LivePlayersAreParserShaped ==
    (PayloadParsed /\ callOut.players = parseRosterPayload(callIn.payload).players) =>
        \A i \in 1..Len(callOut.players) : ParserShaped(callOut.players[i])

-----------------------------------------------------------------------------
(* error, notice and loading *)

\* C26: in every reachable state of useRoster the error message and the
\* stale-data notice are never both set, and whenever error is set the player
\* list is empty.
C26_ErrorExcludesNoticeAndPlayers ==
    /\ ~(callOut.error # Null /\ callOut.notice # Null)
    /\ callOut.error # Null => callOut.players = <<>>

\* The error is set after a cache without a valid entry.
C26_Witness ==
    /\ callOut.error = ErrorMessage
    /\ callOut.notice = Null
    /\ callIn.raw.kind = "json"
    /\ Len(CachedList) = 2
    /\ callOut.players = <<>>

\* The notice is set and players are shown.
C26_WitnessNotice ==
    /\ callOut.notice = NoticeMessage
    /\ callOut.error = Null
    /\ callOut.players # <<>>

\* The fetch is in flight after a cache with a valid player was read.
InFlightWithCache == UsableCache /\ callOut.pc \in {"fetching", "decoding"}

\* C27: if cache hydration yields at least one valid player, loading becomes
\* false before the fetch is issued and never becomes true again while the
\* fetch is in flight or after it settles.
C27_CachedRosterStaysDisplayed ==
    /\ (UsableCache /\ callOut.pc # "mounted") => ~callOut.loading
    /\ InFlightWithCache => Snapshot(callOut) = HydratedSnapshot

\* The body is being decoded after a cache with a player was hydrated.
C27_Witness ==
    /\ UsableCache
    /\ callOut.pc = "decoding"
    /\ ~callOut.cancelled
    /\ ~callOut.loading
    /\ callOut.players = SelectSeq(CachedList, HasTheEightStrings)

-----------------------------------------------------------------------------
(* The end of loading *)

\* The effect runs hydrateFromCache and loadRoster to its first await without
\* interruption, and the continuation of a settled promise is run: a rejected
\* fetch, a response and a decoded or undecodable body each lead on.  That the
\* request settles at all is the premise, given here as fairness of the steps
\* that settle it.
SpecRosterSettles ==
    /\ SpecRoster
    /\ WF_vars(HydrateFromCache)
    /\ WF_vars(LoadRoster)
    /\ WF_vars(FetchRejects \/ FetchRespondsNotOk \/ FetchRespondsOk)
    /\ WF_vars(JsonFails \/ JsonDecodes)

\* C28: if the fetch settles and the hook is not unmounted, loading eventually
\* becomes false and stays false: on the success path, on the failure path
\* with a cache and on the failure path without one.
C28_LoadingEnds == <>[](callOut.cancelled \/ ~callOut.loading)

\* The load failed with nothing cached, and loading is false.
C28_Witness ==
    /\ callOut.pc = "settled"
    /\ ~callOut.cancelled
    /\ ~UsableCache
    /\ LoadFailed
    /\ ~callOut.loading

\* The load succeeded with nothing cached, and loading is false.
C28_WitnessSuccess ==
    /\ callOut.pc = "settled"
    /\ ~callOut.cancelled
    /\ ~UsableCache
    /\ PayloadParsed
    /\ callOut.players # <<>>
    /\ ~callOut.loading

\* Settled and still mounted, loading is false.
C28_SettledNotLoading ==
    (callOut.pc = "settled" /\ ~callOut.cancelled) => ~callOut.loading

-----------------------------------------------------------------------------
(* handleSort: clicks on the column headers of the roster table.  callIn    *)
(* holds the columns clicked so far, callOut the sortConfig state of App.   *)

DEFAULT_SORT == [key |-> "jersey", direction |-> "asc"]

\* Mutant: a new column keeps the direction of the old one.
handleSort_KeepDirection(current, key) ==
    IF current.key = key
    THEN [key |-> key, direction |-> IF current.direction = "asc" THEN "desc" ELSE "asc"]
    ELSE [key |-> key, direction |-> current.direction]

\* The updater handleSort passes to setSortConfig.
handleSort(current, key) ==
    IF current.key = key
    THEN [key |-> key, direction |-> IF current.direction = "asc" THEN "desc" ELSE "asc"]
    ELSE [key |-> key, direction |-> "asc"]

MaxClicks == 3

InitSort ==
    /\ callIn = [clicks |-> <<>>]
    /\ callOut = [sortConfig |-> DEFAULT_SORT]
    /\ cmpIn = Idle /\ cmpOut = Idle
    /\ fsIn = Idle /\ fsOut = Idle
    /\ neIn = Idle /\ neOut = Idle
    /\ prIn = Idle /\ prOut = Idle

\* onClick={() => onSort(column.key)} of one of the seven columns
ClickColumn ==
    /\ Len(callIn.clicks) < MaxClicks
    /\ \E key \in SortKeys :
          /\ callIn' = [clicks |-> Append(callIn.clicks, key)]
          /\ callOut' = [sortConfig |-> handleSort(callOut.sortConfig, key)]
    /\ UNCHANGED Others

NextSort == ClickColumn

SpecSort == InitSort /\ [][NextSort]_vars

LastClicked(clicks) == clicks[Len(clicks)]

\* C29: after any sequence of column-header clicks starting from the default
\* {jersey, asc} the sort key is the last clicked column; a click on a column
\* other than the current key gives ascending direction, and a click on the
\* current key flips the direction and leaves the key unchanged.
C29_KeyIsLastClicked ==
    [][/\ callOut'.sortConfig.key = LastClicked(callIn'.clicks)
       /\ LastClicked(callIn'.clicks) # callOut.sortConfig.key =>
             callOut'.sortConfig.direction = "asc"
       /\ LastClicked(callIn'.clicks) = callOut.sortConfig.key =>
             /\ callOut'.sortConfig.key = callOut.sortConfig.key
             /\ callOut'.sortConfig.direction # callOut.sortConfig.direction
             /\ callOut'.sortConfig.direction \in SortDirections]_vars

\* jersey clicked once (descending), then height twice.
C29_Witness ==
    /\ callIn.clicks = <<"jersey", "height", "height">>
    /\ callOut.sortConfig = [key |-> "height", direction |-> "desc"]

\* Without a click the configuration is the default.
C29_DefaultFirst ==
    callIn.clicks = <<>> => callOut.sortConfig = DEFAULT_SORT

-----------------------------------------------------------------------------
(* The team meta through the cache: JSON.stringify of the parsed TeamMeta   *)
(* (part_005:133-140), JSON.parse at the next mount and normalizeTeamMeta   *)
(* (part_005:52, 70).                                                       *)

\* string | null as JSON
StringToJson(s) == IF s = Null THEN JNull ELSE JString(s)

\* Mutant: a number is written as its text.
NumberToJson_AsText(n) == IF n.ok THEN JString(NumberToString(n.val)) ELSE JNull

\* number | null as JSON; the parser keeps finite numbers only
NumberToJson(n) == IF n.ok THEN JNumber(n.val) ELSE JNull

\* boolean | null as JSON
BooleanToJson(b) == IF b = TriNull THEN JNull ELSE JBoolean(b = "true")

StringsToJson(list) == JArray([i \in 1..Len(list) |-> JString(list[i])])

\* The decoded JSON text of a TeamNextEvent | null
EventToJson(event) ==
    IF ~event.present THEN JNull
    ELSE JObject(
        [id |-> StringToJson(event.id),
         name |-> StringToJson(event.name),
         shortName |-> StringToJson(event.shortName),
         date |-> StringToJson(event.date),
         opponent |-> StringToJson(event.opponent),
         opponentAbbreviation |-> StringToJson(event.opponentAbbreviation),
         opponentRank |-> NumberToJson(event.opponentRank),
         isHome |-> BooleanToJson(event.isHome),
         venue |-> StringToJson(event.venue),
         venueCity |-> StringToJson(event.venueCity),
         venueState |-> StringToJson(event.venueState),
         venueCountry |-> StringToJson(event.venueCountry),
         seasonText |-> StringToJson(event.seasonText),
         weekText |-> StringToJson(event.weekText),
         broadcasts |-> StringsToJson(event.broadcasts),
         ticketsSummary |-> StringToJson(event.ticketsSummary),
         ticketsStartingPrice |-> NumberToJson(event.ticketsStartingPrice),
         statusDetail |-> StringToJson(event.statusDetail),
         statusShortDetail |-> StringToJson(event.statusShortDetail)])

\* The decoded JSON text of a TeamMeta
MetaToJson(meta) ==
    JObject(
        [rank |-> NumberToJson(meta.rank),
         standingSummary |-> StringToJson(meta.standingSummary),
         displayName |-> StringToJson(meta.displayName),
         shortDisplayName |-> StringToJson(meta.shortDisplayName),
         location |-> StringToJson(meta.location),
         nickname |-> StringToJson(meta.nickname),
         abbreviation |-> StringToJson(meta.abbreviation),
         color |-> StringToJson(meta.color),
         alternateColor |-> StringToJson(meta.alternateColor),
         nextEvent |-> EventToJson(meta.nextEvent)])

Media(shortName, name) == JObject([media |-> JObject([shortName |-> shortName, name |-> name])])

CompetitorLists ==
    { <<>>,
      <<OurCompetitor(JString(TEAM_ID), JString(Home)), OtherCompetitor(<<"b">>, JString(Away))>>,
      <<JObject([team |-> JObject([id |-> JNumber(4), displayName |-> JString(<<" ">>),
                                   location |-> JString(<<" ", "q">>),
                                   abbreviation |-> JString(<<"X", " ">>)]),
                 homeAway |-> JString(<<"H", "o", "m", "e">>),
                 curatedRank |-> JObject([current |-> JString(<<"1">>)])])>>,
      <<OurCompetitor(JObject([toString |-> JNumber(1)]), JString(Home))>> }

Venues ==
    { JUndefined, JString(<<"a">>),
      JObject([fullName |-> JString(<<" ", "V">>),
               address |-> JObject([city |-> JString(<<"c", " ">>), state |-> JString(<<" ">>),
                                    country |-> JNumber(1)])]) }

BroadcastLists ==
    { JUndefined,
      JArray(<<Media(JString(<<" ", "E">>), JString(<<"n">>)), JNull,
               Media(JString(<<"E">>), JUndefined),
               Media(JString(<<" ">>), JString(<<"F", " ">>))>>) }

TicketLists ==
    { JUndefined,
      JArray(<<JNull, JObject([summary |-> JString(<<" ", "s">>), minPrice |-> JNumber(5)]),
               JObject([startingPrice |-> JNumber(9)])>>) }

Statuses ==
    { JUndefined,
      JObject([type |-> JString(<<"t", " ">>), description |-> JString(<<" ", "d">>)]),
      JObject([detail |-> JString(<<"d">>),
               type |-> JObject([shortDetail |-> JString(<<" ">>),
                                 description |-> JString(<<"x", " ">>)])]) }

Competition(competitors, venue, broadcasts, tickets, status) ==
    JObject([competitors |-> JArray(competitors), venue |-> venue, broadcasts |-> broadcasts,
             tickets |-> tickets, status |-> status])

\* The next events of a team payload: the id, the season and week texts and
\* the first competition.
FullEvent(id, dated, competition) ==
    IF dated
    THEN JObject([id |-> id, name |-> JString(<<" ", "a", " ", "b">>),
                  date |-> JString(<<"2", "0">>),
                  season |-> JObject([displayName |-> JString(<<" ">>)]),
                  seasonType |-> JString(<<"r", " ">>),
                  week |-> JObject([text |-> JString(<<" ", "w">>)]),
                  competitions |-> JArray(<<competition>>)])
    ELSE JObject([id |-> id, shortName |-> JString(<<>>),
                  competitions |-> JArray(<<competition>>)])

FullEvents ==
    { FullEvent(id, dated, Competition(competitors, venue, broadcasts, tickets, status)) :
          id \in {JString(<<" ", "1">>), JNumber(7)}, dated \in BOOLEAN,
          competitors \in CompetitorLists, venue \in Venues, broadcasts \in BroadcastLists,
          tickets \in TicketLists, status \in Statuses }

TeamOf(named, nextEvent) ==
    IF named
    THEN JObject([rank |-> JNumber(5), standingSummary |-> JString(<<" ", "1", "s", "t">>),
                  displayName |-> JString(<<" ", "a", " ">>), shortDisplayName |-> JString(<<>>),
                  location |-> JString(<<"q">>), nickname |-> JNumber(1),
                  abbreviation |-> JString(<<"I", "U">>), color |-> JString(<<" ">>),
                  alternateColor |-> JNull, nextEvent |-> nextEvent])
    ELSE JObject([rank |-> JString(<<"5">>), nextEvent |-> nextEvent])

CachePayloads ==
    { JObject([team |-> TeamOf(named, JArray(<<event>>))]) :
          named \in BOOLEAN, event \in FullEvents }
    \cup { JObject([team |-> TeamOf(named, nextEvent)]) :
              named \in BOOLEAN, nextEvent \in {JUndefined, JArray(<<>>), JEmptyObject} }
    \cup { JNull, JEmptyObject, JObject([team |-> JNull]) }

InitCache ==
    /\ \E payload \in CachePayloads : callIn = [payload |-> payload]
    /\ callOut = Idle
    /\ cmpIn = Idle /\ cmpOut = Idle
    /\ fsIn = Idle /\ fsOut = Idle
    /\ neIn = Idle /\ neOut = Idle
    /\ prIn = Idle /\ prOut = Idle

\* What normalizeTeamMeta makes of the cached text of a parsed team meta.
Rehydrated(parsed) ==
    IF parsed.threw THEN NullMeta ELSE normalizeTeamMeta(MetaToJson(parsed.meta))

\* parseTeamMeta at one mount, the write to the cache, and the read of the
\* cache at the next mount.
CacheTeamMeta ==
    /\ callOut = Idle
    /\ callOut' = [pc |-> "done",
                   parsed |-> parseTeamMeta(callIn.payload),
                   normalized |-> Rehydrated(parseTeamMeta(callIn.payload))]
    /\ UNCHANGED <<callIn, Others>>

NextCache == CacheTeamMeta

SpecCache == InitCache /\ [][NextCache]_vars

CacheDone == callOut # Idle

\* C30: the TeamMeta cache path is lossless: for every payload p,
\* normalizeTeamMeta applied to the serialized and deserialized result of
\* parseTeamMeta(p) equals parseTeamMeta(p) field by field, every field of
\* nextEvent included (id, opponent fields, isHome, venue fields, broadcasts in
\* order, ticket fields, status fields, season and week text).
C30_CacheIsLossless ==
    (CacheDone /\ ~callOut.parsed.threw) =>
        /\ callOut.normalized.present
        /\ \A field \in MetaFields :
              callOut.normalized.meta[field] = callOut.parsed.meta[field]
        /\ callOut.normalized.meta.nextEvent = callOut.parsed.meta.nextEvent

\* A team with a rank and names and a next event with an opponent, a venue,
\* two broadcasts, tickets and a status.
C30_Witness ==
    /\ CacheDone
    /\ ~callOut.parsed.threw
    /\ callOut.parsed.meta.rank = Num(5)
    /\ callOut.parsed.meta.displayName = <<"a">>
    /\ callOut.parsed.meta.nextEvent.present
    /\ callOut.parsed.meta.nextEvent.id = <<"7">>
    /\ callOut.parsed.meta.nextEvent.opponent = <<"b">>
    /\ callOut.parsed.meta.nextEvent.opponentRank = Num(5)
    /\ callOut.parsed.meta.nextEvent.isHome # TriNull
    /\ callOut.parsed.meta.nextEvent.venue = <<"V">>
    /\ callOut.parsed.meta.nextEvent.broadcasts = <<<<"E">>, <<"F">>>>
    /\ callOut.parsed.meta.nextEvent.ticketsStartingPrice = Num(5)
    /\ callOut.parsed.meta.nextEvent.statusDetail # Null
    /\ callOut.parsed.meta.nextEvent.weekText = <<"w">>
    /\ callOut.normalized.meta = callOut.parsed.meta

====
